---- MODULE Spec2Model ----
(***************************************************************************)
(* A model of the simulation core of noahs_helpers: Engine.run_turn and    *)
(* Engine.run_simulation (src/core/engine.py) over Cells                   *)
(* (src/core/cell.py) and the Action variants (src/core/action.py).        *)
(*                                                                         *)
(* Positions are continuous in the program; here a coordinate is an        *)
(* integer number of 1/Scale km, so that a helper can stand at a           *)
(* fractional place inside a cell and int() truncation is observable.      *)
(***************************************************************************)
EXTENDS Integers, Sequences, FiniteSets, TLC

\* ------------------------------------------------------------------------
\* Bounds of the model
\* ------------------------------------------------------------------------
GridW == 2
GridH == 1
Scale == 2
NumHelpers == 2
NumAnimals == 5
Time == 2

\* ------------------------------------------------------------------------
\* Program constants (core.constants)
\* ------------------------------------------------------------------------
MAX_FLOCK_SIZE == 4
MAX_SIGHT_KM == 5
MAX_DISTANCE_KM == 1
ONE_BYTE == 256

\* c.START_RAIN, scaled to the length of the runs of the model: the number
\* of turns before the end of the run at which the rain starts
START_RAIN == 1

Helpers == 1..NumHelpers
Animals == 1..NumAnimals
GridCells == (0..(GridW - 1)) \X (0..(GridH - 1))
Positions == (0..(GridW * Scale - 1)) \X (0..(GridH * Scale - 1))

\* Values a strategy may hand back from check_surroundings.
SignalValues == {-1, 0, ONE_BYTE - 1, ONE_BYTE}

\* Destinations a strategy may ask for: every place of the landscape and one
\* column beyond each side of it.
MoveTargets == ((-1)..(GridW * Scale)) \X (0..(GridH * Scale - 1))

None == [kind |-> "None", animal |-> 0, x |-> 0, y |-> 0]
Release(a) == [kind |-> "Release", animal |-> a, x |-> 0, y |-> 0]
Obtain(a) == [kind |-> "Obtain", animal |-> a, x |-> 0, y |-> 0]
Move(x, y) == [kind |-> "Move", animal |-> 0, x |-> x, y |-> y]

\* a value that is no Action and not None, such as a string or a tuple
Other == [kind |-> "Other", animal |-> 0, x |-> 0, y |-> 0]

\* Values a strategy may hand back from get_action.
ActionValues ==
    {None, Other}
        \cup {Release(a) : a \in Animals} \cup {Obtain(a) : a \in Animals}
        \cup {Move(t[1], t[2]) : t \in MoveTargets}

NoError == <<"none">>

VARIABLES
    time_elapsed,      \* the argument of the run_turn in progress (or next)
    pc,                \* where run_simulation / run_turn stands
    cur,               \* the helper of the loop in progress
    position,          \* helper.position
    flock,             \* helper.flock
    cell_animals,      \* cell.animals, by cell
    cell_helpers,      \* cell.helpers, by cell
    free_animals,      \* Engine.free_animals: a dict in insertion order
    sights,            \* run_turn's local sights
    messages_to,       \* run_turn's local messages_to
    one_byte_message,  \* run_turn's local one_byte_message
    action,            \* run_turn's local action
    mig,               \* the place of the migration loop in free_animals
    calls,             \* strategy callbacks made in the turn in progress
    error,             \* the exception that ended the run, if any
    ark,               \* the animals in the ark
    ark_view,          \* run_turn's local ark_view
    snapshot,          \* run_turn's local snapshot
    migrates,          \* the last "random() < c.ANIMAL_MOVE_PROBABILITY"
    strategy,          \* the helpers' strategy class and what it keeps
    ui                 \* ArkUI: running, paused, turn, and where run() stands

vars == <<time_elapsed, pc, cur, position, flock, cell_animals, cell_helpers,
          free_animals, sights, messages_to, one_byte_message, action, mig, calls, error,
          ark, ark_view, snapshot, migrates, strategy, ui>>

world == <<position, flock, cell_animals, cell_helpers, free_animals>>

\* helpers whose callbacks are left open: any byte, any action
NoStrategy == [class |-> "any"]

\* no ArkUI: the Engine is driven by run_simulation
NoUI ==
    [running |-> FALSE, paused |-> TRUE, turn |-> 0, at |-> "none",
     back |-> "none"]

\* self.grid: the cells of the Engine
Cells == DOMAIN cell_animals

\* self.helpers, by place in the list
HelperIds == DOMAIN position

\* the cell of the ark
ArkCell == <<0, 0>>

\* no ark view: the helper_ark_view of a helper outside the ark
NoView == [present |-> FALSE, animals |-> {}]

\* self.ark.get_view()
ArkGetView(a) == [present |-> TRUE, animals |-> a]

NoSnapshot ==
    [time_elapsed |-> -1, is_raining |-> FALSE, position |-> <<0, 0>>,
     sight |-> <<>>, ark_view |-> NoView]

\* ------------------------------------------------------------------------
\* Python helpers
\* ------------------------------------------------------------------------

\* int() of a non-negative coordinate: truncation.
PyInt(v) == v \div Scale

\* tuple(map(int, helper.position))
HelperCell(p) == <<PyInt(p[1]), PyInt(p[2])>>

\* dict: a sequence of <<key, value>> in insertion order, keys distinct
DictKeys(d) == {d[i][1] : i \in 1..Len(d)}
DictIndex(d, k) == CHOOSE i \in 1..Len(d) : d[i][1] = k
DictGet(d, k) == d[DictIndex(d, k)][2]

\* d[k] = v
DictSet(d, k, v) ==
    IF k \in DictKeys(d)
    THEN [d EXCEPT ![DictIndex(d, k)] = <<k, v>>]
    ELSE Append(d, <<k, v>>)

\* del d[k]
DictDel(d, k) ==
    LET i == DictIndex(d, k)
    IN  SubSeq(d, 1, i - 1) \o SubSeq(d, i + 1, Len(d))

\* ------------------------------------------------------------------------
\* Helper capabilities (core.player.Player)
\* ------------------------------------------------------------------------

\* distance between two places <= km, on squares to stay in the integers
WithinKm(p, q, km) ==
    (p[1] - q[1]) * (p[1] - q[1]) + (p[2] - q[2]) * (p[2] - q[2])
        <= (km * Scale) * (km * Scale)

\* helper.distance(neighbor) <= c.MAX_SIGHT_KM
InSight(p, q) == WithinKm(p, q, MAX_SIGHT_KM)

\* helper.can_move_to(x, y): inside the landscape and within one turn's reach
CanMoveTo(p, x, y) ==
    /\ 0 <= x /\ x < GridW * Scale
    /\ 0 <= y /\ y < GridH * Scale
    /\ WithinKm(p, <<x, y>>, MAX_DISTANCE_KM)

\* helper.is_in_ark(): the helper stands in the cell of the ark
IsInArk(p) == <<p[1] \div Scale, p[2] \div Scale>> = ArkCell

\* ------------------------------------------------------------------------
\* Engine._get_sights
\* ------------------------------------------------------------------------

RECURSIVE SightsFromOneWay(_, _, _, _)
\* _get_sights without the append to the neighbor's own list
SightsFromOneWay(pos, i, j, in_sight) ==
    IF i > Len(pos) THEN in_sight
    ELSE IF j > Len(pos) THEN SightsFromOneWay(pos, i + 1, i + 2, in_sight)
    ELSE SightsFromOneWay(pos, i, j + 1,
            IF InSight(pos[i], pos[j])
            THEN [in_sight EXCEPT ![i] = Append(@, j)]
            ELSE in_sight)

RECURSIVE SightsFrom(_, _, _, _)
\* the two loops of _get_sights from the pair (i, j) on
SightsFrom(pos, i, j, in_sight) ==
    IF i > Len(pos) THEN in_sight
    ELSE IF j > Len(pos) THEN SightsFrom(pos, i + 1, i + 2, in_sight)
    ELSE SightsFrom(pos, i, j + 1,
            IF InSight(pos[i], pos[j])
            THEN [in_sight EXCEPT ![i] = Append(@, j), ![j] = Append(@, i)]
            ELSE in_sight)

GetSights(pos) == SightsFrom(pos, 1, 2, [h \in 1..Len(pos) |-> <<>>])

\* ------------------------------------------------------------------------
\* Cell
\* ------------------------------------------------------------------------

\* links that fall back on the cell itself when it has no neighbor
LinksOrSelf(c) ==
    LET cand == << <<c[1], c[2] - 1>>, <<c[1], c[2] + 1>>,
                   <<c[1] - 1, c[2]>>, <<c[1] + 1, c[2]>> >>
        found == SelectSeq(cand, LAMBDA n : n \in Cells)
    IN  IF found = <<>> THEN <<c>> ELSE found

\* The links of a cell in the order up, down, left, right; absent links are
\* left out (the "is not None" filter of get_emptiest_neighbors).
Links(c) ==
    LET cand == << <<c[1], c[2] - 1>>, <<c[1], c[2] + 1>>,
                   <<c[1] - 1, c[2]>>, <<c[1] + 1, c[2]>> >>
    IN  SelectSeq(cand, LAMBDA n : n \in Cells)

SeqToSet(s) == {s[i] : i \in 1..Len(s)}

\* min() of an empty list raises
MinOfNone(dirs) == dirs = <<>>

\* the count of the first neighbor taken for the minimum
MinAnimalsOfFirst(dirs, animals) == Cardinality(animals[dirs[1]])

\* min([len(dir.animals) for dir in dirs]), dirs not empty
MinAnimals(dirs, animals) ==
    CHOOSE m \in {Cardinality(animals[d]) : d \in SeqToSet(dirs)} :
        \A d \in SeqToSet(dirs) : m <= Cardinality(animals[d])

\* the emptiest of the cells one link away and of those two links away
\* through the first link
GetEmptiestAnywhere(c, animals) ==
    LET dirs == Links(c) \o
                  SelectSeq(Links(Links(c)[1]), LAMBDA d : d # c)
        min_animals == MinAnimals(dirs, animals)
    IN  SelectSeq(dirs, LAMBDA d : Cardinality(animals[d]) = min_animals)

\* Cell.get_emptiest_neighbors, for a cell with at least one link
GetEmptiestNeighbors(c, animals) ==
    LET dirs == Links(c)
        min_animals == MinAnimals(dirs, animals)
    IN  SelectSeq(dirs, LAMBDA d : Cardinality(animals[d]) = min_animals)

\* ------------------------------------------------------------------------
\* Construction: Engine(grid, ark, helpers, time, animals)
\* ------------------------------------------------------------------------

\* Where helpers may stand at the start: inside the first cell, off its
\* corner, and at the far corner of the landscape.
InitPositions == {<<1, 0>>, <<GridW * Scale - 1, GridH * Scale - 1>>}

\* The flocks the helpers are built with: all empty, or the first helper
\* already holding a full flock.
InitFlocks ==
    {[h \in Helpers |-> {}],
     [h \in Helpers |->
        IF h = 1 THEN {a \in Animals : a <= MAX_FLOCK_SIZE} ELSE {}]}

\* Where the animals outside the flocks start: all in the first cell, or
\* spread over the grid.
InitPlacements ==
    {[a \in Animals |-> <<0, 0>>],
     [a \in Animals |-> <<a % GridW, a % GridH>>]}

RECURSIVE BuildDict(_, _, _)
\* the animals dict handed to the Engine: the animals from a on that are in
\* no flock, each with its cell
BuildDict(a, held, place) ==
    IF a > NumAnimals THEN <<>>
    ELSE (IF a \in held THEN <<>> ELSE << <<a, place[a]>> >>)
            \o BuildDict(a + 1, held, place)

\* the cells' helpers sets as the grid is set up: each helper in the set of
\* the cell it stands in
HelpersIn(cells, pos) ==
    [c \in cells |-> {h \in DOMAIN pos : HelperCell(pos[h]) = c}]

\* no callback made yet, and no byte handed back, for the helpers H
CallsNone(H) ==
    [check |-> [h \in H |-> 0], action |-> [h \in H |-> 0],
     signal |-> [h \in H |-> 0]]

NoCalls == CallsNone(Helpers)

Init ==
    /\ time_elapsed = 0
    /\ pc = "turn_start"
    /\ cur = 1
    /\ position \in [Helpers -> InitPositions]
    /\ flock \in InitFlocks
    /\ \E place \in InitPlacements :
        LET held == UNION {flock[h] : h \in Helpers}
        IN  /\ free_animals = BuildDict(1, held, place)
            /\ cell_animals =
                [c \in GridCells |-> {a \in Animals \ held : place[a] = c}]
    /\ cell_helpers = HelpersIn(DOMAIN cell_animals, position)
    /\ sights = [h \in Helpers |-> <<>>]
    /\ messages_to = [h \in Helpers |-> <<>>]
    /\ one_byte_message = 0
    /\ action = None
    /\ mig = 1
    /\ calls = NoCalls
    /\ error = NoError
    /\ ark = {}
    /\ ark_view = NoView
    /\ snapshot = NoSnapshot
    /\ migrates = FALSE
    /\ strategy = NoStrategy
    /\ ui = NoUI

\* ------------------------------------------------------------------------
\* Engine.run_simulation and the head of Engine.run_turn
\* ------------------------------------------------------------------------

\* a loop that runs one turn more than self.time
InRangeInclusive(t) == t <= Time

\* time_elapsed in range(self.time)
InRange(t) == t < Time

\* the head of run_turn(t): run_turn computes the sights and empties the
\* inboxes
RunTurn(t) ==
    /\ time_elapsed' = t
    /\ ark_view' = ArkGetView(ark)
    /\ sights' = GetSights(position)
    /\ messages_to' = [h \in HelperIds |-> <<>>]
    /\ calls' = CallsNone(HelperIds)
    /\ cur' = 1
    /\ pc' = IF Len(position) = 0 THEN "migrate" ELSE "check"
    /\ UNCHANGED <<world, one_byte_message, action, mig, error, ark, snapshot,
                   migrates, strategy>>

\* run_simulation enters run_turn(time_elapsed)
BeginTurn ==
    /\ pc = "turn_start"
    /\ InRange(time_elapsed)
    /\ RunTurn(time_elapsed)
    /\ UNCHANGED ui

\* range(self.time) is exhausted: run_simulation returns
FinishRun ==
    /\ pc = "turn_start"
    /\ ~InRange(time_elapsed)
    /\ pc' = "done"
    /\ UNCHANGED <<time_elapsed, cur, world, sights, messages_to,
                   one_byte_message, action, mig, calls, error, ark, ark_view,
                   snapshot, migrates, strategy,
                   ui>>

\* ------------------------------------------------------------------------
\* Signal pass
\* ------------------------------------------------------------------------

\* a view of the ark taken when the snapshot is built
HelperArkViewLive(h) == IF IsInArk(position[h]) THEN ArkGetView(ark) ELSE NoView

\* helper_ark_view: the view taken at the head of run_turn for a helper in
\* the ark, None for the others
HelperArkView(h) == IF IsInArk(position[h]) THEN ark_view ELSE NoView

\* a rain that starts one turn late
IsRainingLate(t) == t > Time - START_RAIN

\* is_raining = time_elapsed >= self.time - c.START_RAIN
IsRaining(t) == t >= Time - START_RAIN

\* cell.get_view(...): a copy of the cell's animals, and its helpers set
CellView(c) == [animals |-> cell_animals[c], helpers |-> cell_helpers[c]]

\* the cells of the grid within sight of the place p
CellsInSight(p) ==
    {c \in Cells : WithinKm(p, <<c[1] * Scale, c[2] * Scale>>, MAX_SIGHT_KM)}

\* Sight(helper.position, self.grid): the views, taken as the Sight is
\* built, of the cells within sight
Sight(p) == [c \in CellsInSight(p) |-> CellView(c)]

\* HelperSurroundingsSnapshot(time_elapsed, is_raining, helper.position,
\* sight, helper_ark_view)
Snapshot(h) ==
    [time_elapsed |-> time_elapsed, is_raining |-> IsRaining(time_elapsed),
     position |-> position[h], sight |-> Sight(position[h]),
     ark_view |-> HelperArkView(h)]

\* one_byte_message = helper.check_surroundings(snapshot)
CheckSurroundings ==
    /\ pc = "check"
    /\ snapshot' = Snapshot(cur)
    /\ \E b \in SignalValues :
        /\ one_byte_message' = b
        /\ calls' = [calls EXCEPT !.check[cur] = @ + 1, !.signal[cur] = b]
    /\ pc' = "route"
    /\ UNCHANGED <<time_elapsed, cur, world, sights, messages_to, action, mig,
                   error, ark, ark_view, migrates, strategy,
                   ui>>

\* the range check with its upper end included
MessageValidInclusive(b) == 0 <= b /\ b <= ONE_BYTE

\* 0 <= one_byte_message < c.ONE_BYTE
MessageValid(b) == 0 <= b /\ b < ONE_BYTE

Message(h, b) == [from_helper |-> h, contents |-> b]

RECURSIVE BroadcastToSender(_, _, _, _)
\* a broadcast that appends to the sender's own inbox
BroadcastToSender(neighbors, i, msg, inboxes) ==
    IF i > Len(neighbors) THEN inboxes
    ELSE BroadcastToSender(neighbors, i + 1, msg,
                   [inboxes EXCEPT ![msg.from_helper] = Append(@, msg)])

RECURSIVE Broadcast(_, _, _, _)
\* for neighbor in sights[helper]: messages_to[neighbor].append(msg)
Broadcast(neighbors, i, msg, inboxes) ==
    IF i > Len(neighbors) THEN inboxes
    ELSE Broadcast(neighbors, i + 1, msg,
                   [inboxes EXCEPT ![neighbors[i]] = Append(@, msg)])

\* one loop for both passes: the helper is asked for its action as soon as
\* its byte is out
RouteThenAct ==
    /\ pc = "route"
    /\ IF ~MessageValid(one_byte_message)
       THEN /\ error' = <<"bad_message", cur, one_byte_message>>
            /\ pc' = "aborted"
            /\ UNCHANGED <<cur, messages_to, snapshot>>
       ELSE /\ messages_to' =
                Broadcast(sights[cur], 1, Message(cur, one_byte_message),
                          messages_to)
            /\ cur' = cur
            /\ pc' = "get_action"
            /\ snapshot' = NoSnapshot
            /\ UNCHANGED error
    /\ UNCHANGED <<time_elapsed, world, sights, one_byte_message, action, mig,
                   calls, ark, ark_view, migrates, strategy,
                   ui>>

\* the range check of the byte and its broadcast to the helper's neighbors;
\* the snapshot of the helper is not used again
Route ==
    /\ pc = "route"
    /\ IF ~MessageValid(one_byte_message)
       THEN /\ error' = <<"bad_message", cur, one_byte_message>>
            /\ pc' = "aborted"
            /\ UNCHANGED <<cur, messages_to, snapshot>>
       ELSE /\ messages_to' =
                Broadcast(sights[cur], 1, Message(cur, one_byte_message),
                          messages_to)
            /\ IF cur < Len(position)
               THEN cur' = cur + 1 /\ pc' = "check"
               ELSE cur' = 1 /\ pc' = "get_action"
            /\ snapshot' = NoSnapshot
            /\ UNCHANGED error
    /\ UNCHANGED <<time_elapsed, world, sights, one_byte_message, action, mig,
                   calls, ark, ark_view, migrates, strategy,
                   ui>>

\* ------------------------------------------------------------------------
\* Action pass
\* ------------------------------------------------------------------------

\* action = helper.get_action(messages_to[helper])
GetAction ==
    /\ pc = "get_action"
    /\ \E act \in ActionValues : action' = act
    /\ calls' = [calls EXCEPT !.action[cur] = @ + 1]
    /\ pc' = "resolve"
    /\ UNCHANGED <<time_elapsed, cur, world, sights, messages_to,
                   one_byte_message, mig, error, ark, ark_view, snapshot,
                   migrates, strategy,
                   ui>>

\* an exception that is caught: the action pass is cut short and the turn
\* goes on with the migration
RaiseCaught(e) ==
    /\ error' = e
    /\ pc' = "migrate"
    /\ UNCHANGED <<time_elapsed, cur, action, mig>>

\* a raise inside run_turn: the exception leaves run_turn and run_simulation
Raise(e) ==
    /\ error' = e
    /\ pc' = "aborted"
    /\ UNCHANGED <<time_elapsed, cur, action, mig>>

\* one loop for both passes: after the action of a helper the next helper is
\* shown its surroundings
NextHelperRecheck ==
    /\ action' = None
    /\ mig' = 1
    /\ IF cur < Len(position)
       THEN cur' = cur + 1 /\ pc' = "check"
       ELSE cur' = 1 /\ pc' = "migrate"
    /\ UNCHANGED <<time_elapsed, error>>

\* the helper's case of the match is over: on to the next helper, or to the
\* migration loop after the last one
NextHelper ==
    /\ action' = None
    /\ mig' = 1
    /\ IF cur < Len(position)
       THEN cur' = cur + 1 /\ pc' = "get_action"
       ELSE cur' = 1 /\ pc' = "migrate"
    /\ UNCHANGED <<time_elapsed, error>>

\* Release without its possession check
NotInFlockUnchecked(a, f) == FALSE

\* a not in helper.flock
NotInFlock(a, f) == a \notin f

\* Obtain without its capacity check
FlockFullNever(f) == FALSE

\* the capacity check off by one
FlockFullStrict(f) == Cardinality(f) > MAX_FLOCK_SIZE

\* len(helper.flock) >= c.MAX_FLOCK_SIZE
FlockFull(f) == Cardinality(f) >= MAX_FLOCK_SIZE

\* the presence check against the whole grid instead of the helper's cell
NotInCellAnywhere(a, cell, animals) ==
    a \notin UNION {animals[c] : c \in DOMAIN animals}

\* a not in helper_cell.animals
NotInCell(a, cell, animals) == a \notin animals[cell]

\* a Release that keeps the animal in the flock
FlockRemoveNothing(f, a) == f

\* helper.flock.remove(a)
FlockRemove(f, a) == f \ {a}

\* an Obtain that takes the animal from the cell and loses it
FlockAddNothing(f, a) == f

\* helper.flock.add(a)
FlockAdd(f, a) == f \cup {a}

\* an Obtain that leaves the animal in the cell
CellRemoveForgotten(animals, cell, a) == animals

\* a remove that empties the cell
CellRemoveAll(animals, cell, a) == [animals EXCEPT ![cell] = {}]

\* helper_cell.animals.remove(a)
CellRemove(animals, cell, a) == [animals EXCEPT ![cell] = @ \ {a}]

\* neighbor.animals.add(animal)
CellAdd(animals, cell, a) == [animals EXCEPT ![cell] = @ \cup {a}]

\* case Release(animal=a)
ResolveRelease(h, a) ==
    LET cell == HelperCell(position[h])
    IN  IF NotInFlock(a, flock[h])
        THEN /\ Raise(<<"not_in_flock", h, a>>)
             /\ UNCHANGED world
        ELSE /\ flock' = [flock EXCEPT ![h] = FlockRemove(@, a)]
             /\ free_animals' = DictSet(free_animals, a, cell)
             /\ UNCHANGED <<position, cell_animals, cell_helpers>>
             /\ NextHelper

\* case Obtain(animal=a)
ResolveObtain(h, a) ==
    LET helper_cell == HelperCell(position[h])
    IN  IF FlockFull(flock[h])
        THEN /\ Raise(<<"full_flock", h>>)
             /\ UNCHANGED world
        ELSE IF NotInCell(a, helper_cell, cell_animals)
        THEN /\ Raise(<<"not_in_cell", h, a, helper_cell>>)
             /\ UNCHANGED world
        ELSE /\ cell_animals' = CellRemove(cell_animals, helper_cell, a)
             /\ free_animals' = DictDel(free_animals, a)
             /\ flock' = [flock EXCEPT ![h] = FlockAdd(@, a)]
             /\ UNCHANGED <<position, cell_helpers>>
             /\ NextHelper

\* a Move that is never refused
MoveRejectedNever(p, x, y) == FALSE

\* not helper.can_move_to(x, y)
MoveRejected(p, x, y) == ~CanMoveTo(p, x, y)

\* a Move that places every helper at the destination
ResolveMoveAll(h, x, y) ==
    IF MoveRejected(position[h], x, y)
    THEN /\ Raise(<<"cannot_move", h, position[h], <<x, y>> >>)
         /\ UNCHANGED world
    ELSE /\ position' = [g \in DOMAIN position |-> <<x, y>>]
         /\ UNCHANGED <<flock, cell_animals, cell_helpers, free_animals>>
         /\ NextHelper

\* case Move(x=x, y=y)
ResolveMove(h, x, y) ==
    IF MoveRejected(position[h], x, y)
    THEN /\ Raise(<<"cannot_move", h, position[h], <<x, y>> >>)
         /\ UNCHANGED world
    ELSE /\ position' = [position EXCEPT ![h] = <<x, y>>]
         /\ UNCHANGED <<flock, cell_animals, cell_helpers, free_animals>>
         /\ NextHelper

\* match action: there is no case for None, and none for a value that is not
\* an Action; the match statement falls through
Resolve ==
    /\ pc = "resolve"
    /\ CASE action.kind = "Release" -> ResolveRelease(cur, action.animal)
         [] action.kind = "Obtain" -> ResolveObtain(cur, action.animal)
         [] action.kind = "Move" -> ResolveMove(cur, action.x, action.y)
         [] OTHER -> UNCHANGED world /\ NextHelper
    /\ UNCHANGED <<sights, messages_to, one_byte_message, calls, ark,
                   ark_view, snapshot, migrates, strategy,
                   ui>>

\* ------------------------------------------------------------------------
\* Migration
\* ------------------------------------------------------------------------

\* one round of "for animal, cell in self.free_animals.items()"
Migrate ==
    /\ pc = "migrate"
    /\ mig <= Len(free_animals)
    /\ LET animal == free_animals[mig][1]
           cell == free_animals[mig][2]
       IN  \E moves \in BOOLEAN :
            /\ migrates' = moves
            /\ IF ~moves
               THEN /\ mig' = mig + 1
                    /\ UNCHANGED <<world, pc, error>>
               ELSE IF MinOfNone(Links(cell))
               THEN /\ error' = <<"no_neighbors", animal, cell>>
                    /\ pc' = "aborted"
                    /\ UNCHANGED <<world, mig>>
               ELSE \E i \in 1..Len(GetEmptiestNeighbors(cell, cell_animals)) :
                    LET neighbor == GetEmptiestNeighbors(cell, cell_animals)[i]
                    IN  IF animal \notin cell_animals[cell]
                        THEN /\ error' = <<"key_error", animal, cell>>
                             /\ pc' = "aborted"
                             /\ UNCHANGED <<world, mig>>
                        ELSE /\ cell_animals' =
                                CellAdd(CellRemove(cell_animals, cell, animal),
                                        neighbor, animal)
                             /\ free_animals' =
                                DictSet(free_animals, animal, neighbor)
                             /\ mig' = mig + 1
                             /\ UNCHANGED <<position, flock, cell_helpers, pc, error>>
    /\ UNCHANGED <<time_elapsed, cur, sights, messages_to, one_byte_message,
                   action, calls, ark, ark_view, snapshot, strategy,
                   ui>>

\* the migration loop is over: run_turn returns and its locals are gone
RunTurnReturns ==
    /\ pc = "migrate"
    /\ mig > Len(free_animals)
    /\ pc' = "turn_start"
    /\ sights' = [h \in HelperIds |-> <<>>]
    /\ messages_to' = [h \in HelperIds |-> <<>>]
    /\ one_byte_message' = 0
    /\ mig' = 1
    /\ calls' = CallsNone(HelperIds)
    /\ ark_view' = NoView
    /\ snapshot' = NoSnapshot
    /\ migrates' = FALSE
    /\ UNCHANGED <<cur, world, action, error, ark, strategy>>

\* run_turn returns to run_simulation, whose loop goes on to the next index
EndTurn ==
    /\ RunTurnReturns
    /\ time_elapsed' = time_elapsed + 1
    /\ UNCHANGED ui

Next ==
    \/ BeginTurn
    \/ FinishRun
    \/ CheckSurroundings
    \/ Route
    \/ GetAction
    \/ Resolve
    \/ Migrate
    \/ EndTurn

Spec == Init /\ [][Next]_vars

TypeOK ==
    /\ time_elapsed \in 0..Time
    /\ pc \in {"turn_start", "check", "route", "get_action", "resolve",
               "migrate", "done", "aborted"}
    /\ cur \in Helpers
    /\ position \in [Helpers -> Positions]
    /\ flock \in [Helpers -> SUBSET Animals]
    /\ cell_animals \in [Cells -> SUBSET Animals]
    /\ cell_helpers \in [Cells -> SUBSET Helpers]
    /\ DictKeys(free_animals) \subseteq Animals

\* ------------------------------------------------------------------------
\* _get_sights on its own: three or more helpers spread over a landscape
\* wider than the sight range
\* ------------------------------------------------------------------------

SightHelpers == 3

\* places at 0, 1.5, 5 and 5.5 km from the origin along x, and two off the
\* axis at exactly 5 km and just beyond it
SightPositions ==
    {<<0, 0>>, <<(3 * Scale) \div 2, 0>>, <<MAX_SIGHT_KM * Scale, 0>>,
     <<MAX_SIGHT_KM * Scale + 1, 0>>, <<3 * Scale, 4 * Scale>>,
     <<3 * Scale + 1, 4 * Scale>>}

InitSights ==
    /\ time_elapsed = 0
    /\ pc = "turn_start"
    /\ cur = 1
    /\ position \in [1..SightHelpers -> SightPositions]
    /\ flock = [h \in 1..SightHelpers |-> {}]
    /\ free_animals = <<>>
    /\ cell_animals = [c \in GridCells |-> {}]
    /\ cell_helpers = HelpersIn(DOMAIN cell_animals, position)
    /\ sights = [h \in 1..SightHelpers |-> <<>>]
    /\ messages_to = [h \in 1..SightHelpers |-> <<>>]
    /\ one_byte_message = 0
    /\ action = None
    /\ mig = 1
    /\ calls = CallsNone(1..SightHelpers)
    /\ error = NoError
    /\ ark = {}
    /\ ark_view = NoView
    /\ snapshot = NoSnapshot
    /\ migrates = FALSE
    /\ strategy = NoStrategy
    /\ ui = NoUI

NextSights == BeginTurn

SpecSights == InitSights /\ [][NextSights]_vars

\* ------------------------------------------------------------------------
\* The signal pass on its own, for the same helpers
\* ------------------------------------------------------------------------

NextRouting == BeginTurn \/ CheckSurroundings \/ Route

SpecRouting == InitSights /\ [][NextRouting]_vars

\* ------------------------------------------------------------------------
\* Migration on its own: an Engine without helpers, on grids in which a cell
\* has no, one or two neighbors
\* ------------------------------------------------------------------------

MigAnimals == 3

MigrationGrids ==
    {(0..0) \X (0..0), (0..2) \X (0..0), (0..1) \X (0..1)}

InitMigration ==
    /\ time_elapsed = 0
    /\ pc = "turn_start"
    /\ cur = 1
    /\ position = <<>>
    /\ flock = <<>>
    /\ \E grid \in MigrationGrids : \E place \in [1..MigAnimals -> grid] :
        /\ free_animals =
            BuildDict(1, {a \in Animals : a > MigAnimals}, place)
        /\ cell_animals =
            [c \in grid |-> {a \in 1..MigAnimals : place[a] = c}]
    /\ cell_helpers = HelpersIn(DOMAIN cell_animals, position)
    /\ sights = <<>>
    /\ messages_to = <<>>
    /\ one_byte_message = 0
    /\ action = None
    /\ mig = 1
    /\ calls = CallsNone({})
    /\ error = NoError
    /\ ark = {}
    /\ ark_view = NoView
    /\ snapshot = NoSnapshot
    /\ migrates = FALSE
    /\ strategy = NoStrategy
    /\ ui = NoUI

NextMigration == BeginTurn \/ Migrate \/ EndTurn \/ FinishRun

SpecMigration == InitMigration /\ [][NextMigration]_vars

\* ------------------------------------------------------------------------
\* Deliveries: helpers that carry animals, and an ark that takes them in
\* ------------------------------------------------------------------------

\* an ark that keeps only the last delivery
DeliveredOnly(a, f) == f

\* the ark's animals after the delivery of a flock
Delivered(a, f) == a \cup f

\* a helper standing in the cell of the ark delivers the animals of its
\* flock, at any moment of a turn
Unload ==
    /\ pc \in {"check", "route", "get_action", "resolve", "migrate"}
    /\ \E h \in HelperIds :
        /\ IsInArk(position[h])
        /\ ~(flock[h] \subseteq ark)
        /\ ark' = Delivered(ark, flock[h])
    /\ UNCHANGED <<time_elapsed, pc, cur, world, sights, messages_to,
                   one_byte_message, action, mig, calls, error, ark_view,
                   snapshot, migrates, strategy,
                   ui>>

InitArk ==
    /\ time_elapsed = 0
    /\ pc = "turn_start"
    /\ cur = 1
    /\ position \in [Helpers -> InitPositions]
    /\ flock = [h \in Helpers |-> IF h = 1 THEN {1, 2} ELSE {h + 1}]
    /\ free_animals = <<>>
    /\ cell_animals = [c \in GridCells |-> {}]
    /\ cell_helpers = HelpersIn(DOMAIN cell_animals, position)
    /\ sights = [h \in Helpers |-> <<>>]
    /\ messages_to = [h \in Helpers |-> <<>>]
    /\ one_byte_message = 0
    /\ action = None
    /\ mig = 1
    /\ calls = NoCalls
    /\ error = NoError
    /\ ark \in {{}, {NumAnimals}}
    /\ ark_view = NoView
    /\ snapshot = NoSnapshot
    /\ migrates = FALSE
    /\ strategy = NoStrategy
    /\ ui = NoUI

NextArk == Next \/ Unload

SpecArk == InitArk /\ [][NextArk]_vars

\* ------------------------------------------------------------------------
\* Helpers that share the first cell with the free animals, the first of
\* them one animal short of a full flock
\* ------------------------------------------------------------------------

InitShared ==
    /\ time_elapsed = 0
    /\ pc = "turn_start"
    /\ cur = 1
    /\ position \in [Helpers -> {<<0, 0>>, <<1, 0>>}]
    /\ flock = [h \in Helpers |->
                    IF h = 1 THEN {a \in Animals : a < MAX_FLOCK_SIZE} ELSE {}]
    /\ free_animals =
        BuildDict(1, {a \in Animals : a < MAX_FLOCK_SIZE},
                  [a \in Animals |-> <<0, 0>>])
    /\ cell_animals =
        [c \in GridCells |->
            IF c = <<0, 0>> THEN {a \in Animals : a >= MAX_FLOCK_SIZE} ELSE {}]
    /\ cell_helpers = HelpersIn(DOMAIN cell_animals, position)
    /\ sights = [h \in Helpers |-> <<>>]
    /\ messages_to = [h \in Helpers |-> <<>>]
    /\ one_byte_message = 0
    /\ action = None
    /\ mig = 1
    /\ calls = NoCalls
    /\ error = NoError
    /\ ark = {}
    /\ ark_view = NoView
    /\ snapshot = NoSnapshot
    /\ migrates = FALSE
    /\ strategy = NoStrategy
    /\ ui = NoUI

SpecShared == InitShared /\ [][Next]_vars

\* ------------------------------------------------------------------------
\* The callbacks of the shipped strategies: RandomPlayer, Player6, Player9
\* ------------------------------------------------------------------------

PlayerHelpers == 3
MaxSpecies == 300

SIGNAL_ANIMAL_SIGHTING == 1
SIGNAL_ARK_STATUS == 2
BROADCAST_PERIOD == 10

\* v & (2 ** bits - 1) for a Python int v of either sign
AndMask(v, bits) == v % (2 ^ bits)

RECURSIVE BitOr(_, _)
\* a | b for non-negative a and b
BitOr(a, b) ==
    IF a = 0 THEN b
    ELSE IF b = 0 THEN a
    ELSE (IF a % 2 = 1 \/ b % 2 = 1 THEN 1 ELSE 0)
            + 2 * BitOr(a \div 2, b \div 2)

\* self.is_message_valid(msg)
IsMessageValid(msg) == 0 <= msg /\ msg < ONE_BYTE

\* RandomPlayer.check_surroundings
RandomPlayerSignal(id, t) ==
    LET msg == t + id
    IN  IF ~IsMessageValid(msg) THEN AndMask(msg, 8) ELSE msg

\* Player9._find_rarest_needed_species; a species goes by its rank in
\* rarity_order, from 1 on, and 0 stands for None
FindRarestNeededSpecies(n, ark_inventory) ==
    LET needed == {s \in 1..n :
                      \/ s \notin DOMAIN ark_inventory
                      \/ Cardinality(ark_inventory[s]) < 2}
    IN  IF needed = {} THEN 0
        ELSE CHOOSE s \in needed : \A r \in needed : s <= r

\* self.species_to_int.get(target_species, 0): a species maps to its rank
SpeciesToInt(n, species) == IF species \in 1..n THEN species ELSE 0

\* Player9.check_surroundings, Noah's branch
Player9NoahSignal(n, ark_inventory) ==
    LET target_species == FindRarestNeededSpecies(n, ark_inventory)
    IN  IF target_species # 0 THEN SpeciesToInt(n, target_species) ELSE 0

RECURSIVE OrAll(_, _, _)
\* for hello in self.hellos_received: msg |= hello
OrAll(hellos, i, msg) ==
    IF i > Len(hellos) THEN msg
    ELSE OrAll(hellos, i + 1, BitOr(msg, hellos[i]))

\* the hello of a helper: 1 << (id % 8)
Hello(id) == 2 ^ (id % 8)

\* Player9.check_surroundings, the helpers' branch: the "hello" protocol
Player9HelperSignal(id, hellos) ==
    LET msg == IF Len(hellos) = 0 THEN Hello(id) ELSE OrAll(hellos, 1, 0)
    IN  IF ~IsMessageValid(msg) THEN AndMask(msg, 8) ELSE msg

\* (signal << 6) | (species_id & 0x3F)
Player6Encode(signal, species_id) ==
    BitOr(signal * (2 ^ 6), AndMask(species_id, 6))

\* species ids an animal may carry
SpeciesIds == {-1, 0, MaxSpecies}

\* the bytes of a broadcast: the signal with one of the species, or 0 when
\* there is no species to report
Player6Signals(signal) ==
    {0} \cup {Player6Encode(signal, s) : s \in SpeciesIds}

\* the helpers of a run with one of the shipped strategies
PlayerIds == 1..PlayerHelpers

\* the id of the first helper of the list; the others follow it one by one
IdBases == {0, ONE_BYTE - 2}

\* the animals free at the start of such a run
PlayerAnimals == {1}

\* self.flock = snapshot.flock, the first use a Player9 helper and any
\* Player6 make of the snapshot: the Engine builds the snapshot from five
\* values, none of them the flock, so the read raises AttributeError unless
\* the snapshot class serves a flock of its own accord
ReadsSnapshotFlock(class, kind) ==
    \/ class = "Player9" /\ kind = "Helper"
    \/ class = "Player6"

\* what the objects of a strategy class hold across the callbacks;
\* snapshot_flock tells whether a snapshot has the attribute flock (then it
\* is the flock of the helper)
Strategy(class, base, n, last, pos, has_flock) ==
    [class |-> class,
     snapshot_flock |-> has_flock,
     id |-> [h \in PlayerIds |-> base + h - 1],
     kind |-> [h \in PlayerIds |-> IF h = 1 THEN "Noah" ELSE "Helper"],
     num_species |-> n,
     ark_inventory |-> <<>>,
     hellos_received |-> [h \in PlayerIds |-> <<>>],
     last_noah_broadcast_turn |-> last,
     start |-> [position |-> pos,
                flock |-> [h \in PlayerIds |-> {}]]]

\* the strategies a run may be given: every helper of a run has the same
\* class, the first one is Noah
Strategies(pos) ==
    {Strategy("RandomPlayer", base, 0, -1, pos, FALSE) : base \in IdBases}
    \cup {Strategy("Player9", sp[1], sp[2], -1, pos, sp[3]) :
            sp \in IdBases \X {0, 1, MaxSpecies} \X BOOLEAN}
    \cup {Strategy("Player6", sp[1], 0, sp[2], pos, sp[3]) :
            sp \in IdBases \X {-1, -BROADCAST_PERIOD} \X BOOLEAN}

\* the helpers start in one cell, or the last of them at the far end
PlayerPositions ==
    {[h \in PlayerIds |-> <<0, 0>>],
     [h \in PlayerIds |->
        IF h = PlayerHelpers THEN <<GridW * Scale - 1, 0>> ELSE <<0, 0>>]}

InitPlayers ==
    /\ time_elapsed = 0
    /\ pc = "turn_start"
    /\ cur = 1
    /\ position \in PlayerPositions
    /\ flock = [h \in PlayerIds |-> {}]
    /\ free_animals =
        BuildDict(1, Animals \ PlayerAnimals, [a \in Animals |-> <<0, 0>>])
    /\ cell_animals =
        [c \in GridCells |-> IF c = <<0, 0>> THEN PlayerAnimals ELSE {}]
    /\ cell_helpers = HelpersIn(DOMAIN cell_animals, position)
    /\ sights = [h \in PlayerIds |-> <<>>]
    /\ messages_to = [h \in PlayerIds |-> <<>>]
    /\ one_byte_message = 0
    /\ action = None
    /\ mig = 1
    /\ calls = CallsNone(PlayerIds)
    /\ error = NoError
    /\ ark = {}
    /\ ark_view = NoView
    /\ snapshot = NoSnapshot
    /\ migrates = FALSE
    /\ strategy \in Strategies(position)
    /\ ui = NoUI

\* check_surroundings hands back b and leaves the strategy's objects as st
Returns(b, st) ==
    /\ one_byte_message' = b
    /\ calls' = [calls EXCEPT !.check[cur] = @ + 1, !.signal[cur] = b]
    /\ strategy' = st
    /\ pc' = "route"
    /\ UNCHANGED error

\* check_surroundings raises AttributeError at the read of snapshot.flock:
\* nothing is handed back, and the exception leaves run_turn
RaisesAttributeError ==
    /\ error' = <<"attribute_error", cur, "flock">>
    /\ pc' = "aborted"
    /\ calls' = [calls EXCEPT !.check[cur] = @ + 1]
    /\ UNCHANGED <<one_byte_message, strategy>>

\* one_byte_message = helper.check_surroundings(snapshot), by the class of
\* the helper
CheckSurroundingsBy ==
    /\ pc = "check"
    /\ snapshot' = Snapshot(cur)
    /\ \/ /\ ReadsSnapshotFlock(strategy.class, strategy.kind[cur])
          /\ ~strategy.snapshot_flock
          /\ RaisesAttributeError
       \/ /\ strategy.class = "RandomPlayer"
          /\ Returns(RandomPlayerSignal(strategy.id[cur], time_elapsed),
                     strategy)
       \/ /\ strategy.class = "Player9"
          /\ strategy.kind[cur] = "Noah"
          /\ Returns(Player9NoahSignal(strategy.num_species,
                                       strategy.ark_inventory), strategy)
       \/ /\ strategy.class = "Player9"
          /\ strategy.kind[cur] = "Helper"
          /\ strategy.snapshot_flock
          /\ Returns(Player9HelperSignal(strategy.id[cur],
                                         strategy.hellos_received[cur]),
                     [strategy EXCEPT !.hellos_received[cur] = <<>>])
       \/ /\ strategy.class = "Player6"
          /\ strategy.kind[cur] = "Noah"
          /\ strategy.snapshot_flock
          /\ IF time_elapsed - strategy.last_noah_broadcast_turn
                    < BROADCAST_PERIOD
             THEN Returns(0, strategy)
             ELSE \E b \in Player6Signals(SIGNAL_ARK_STATUS) :
                    Returns(b, [strategy EXCEPT
                                !.last_noah_broadcast_turn = time_elapsed])
       \/ /\ strategy.class = "Player6"
          /\ strategy.kind[cur] = "Helper"
          /\ strategy.snapshot_flock
          /\ \E b \in Player6Signals(SIGNAL_ANIMAL_SIGHTING) :
                Returns(b, strategy)
    /\ UNCHANGED <<time_elapsed, cur, world, sights, messages_to, action, mig,
                   ark, ark_view, migrates, ui>>

\* a Noah that acts like any other helper
NoahNeverPassive(class, kind) == FALSE

\* if self.kind == Kind.Noah: return None
NoahReturnsNone(class, kind) ==
    class \in {"Player6", "Player9"} /\ kind = "Noah"

RECURSIVE HellosFrom(_, _, _)
\* Player9.get_action: the hellos among the messages, in their order
HellosFrom(messages, i, st) ==
    IF i > Len(messages) THEN <<>>
    ELSE LET msg == messages[i]
         IN  (IF /\ st.kind[msg.from_helper] = "Helper"
                 /\ Hello(st.id[msg.from_helper]) = msg.contents
              THEN <<msg.contents>> ELSE <<>>)
                \o HellosFrom(messages, i + 1, st)

\* what a helper that is not a passive Noah may hand back
HelperActions == ActionValues \ {Other}

\* action = helper.get_action(messages_to[helper]), by the class of the
\* helper
GetActionBy ==
    /\ pc = "get_action"
    /\ IF NoahReturnsNone(strategy.class, strategy.kind[cur])
       THEN action' = None /\ strategy' = strategy
       ELSE IF strategy.class = "RandomPlayer"
       THEN /\ action' = Move(position[cur][1], position[cur][2])
            /\ strategy' = strategy
       ELSE /\ \E act \in HelperActions : action' = act
            /\ strategy' =
                IF strategy.class = "Player9"
                THEN [strategy EXCEPT !.hellos_received[cur] =
                        @ \o HellosFrom(messages_to[cur], 1, strategy)]
                ELSE strategy
    /\ calls' = [calls EXCEPT !.action[cur] = @ + 1]
    /\ pc' = "resolve"
    /\ UNCHANGED <<time_elapsed, cur, world, sights, messages_to,
                   one_byte_message, mig, error, ark, ark_view, snapshot,
                   migrates, ui>>

NextPlayers ==
    \/ BeginTurn
    \/ FinishRun
    \/ CheckSurroundingsBy
    \/ Route
    \/ GetActionBy
    \/ Resolve
    \/ Migrate
    \/ EndTurn

SpecPlayers == InitPlayers /\ [][NextPlayers]_vars

\* ------------------------------------------------------------------------
\* ArkUI: the window that steps the Engine turn by turn
\* ------------------------------------------------------------------------

\* what pygame.event.get() may hold: QUIT or the key q, the space bar, the
\* right arrow, and any other event
UIEvents == {"quit", "space", "right", "other"}

\* the animals of a run shown in the window
UIAnimals == {1, 2}

\* ArkUI(engine) on a row of cells with free animals and no helper
InitUI ==
    /\ time_elapsed = 0
    /\ pc = "turn_start"
    /\ cur = 1
    /\ position = <<>>
    /\ flock = <<>>
    /\ \E place \in [UIAnimals -> GridCells] :
        /\ free_animals = BuildDict(1, Animals \ UIAnimals,
                                    [a \in Animals |->
                                        IF a \in UIAnimals THEN place[a]
                                        ELSE <<0, 0>>])
        /\ cell_animals =
            [c \in GridCells |-> {a \in UIAnimals : place[a] = c}]
    /\ cell_helpers = HelpersIn(DOMAIN cell_animals, position)
    /\ sights = <<>>
    /\ messages_to = <<>>
    /\ one_byte_message = 0
    /\ action = None
    /\ mig = 1
    /\ calls = CallsNone({})
    /\ error = NoError
    /\ ark = {}
    /\ ark_view = NoView
    /\ snapshot = NoSnapshot
    /\ migrates = FALSE
    /\ strategy = NoStrategy
    /\ ui = [running |-> TRUE, paused |-> TRUE, turn |-> 0, at |-> "events",
             back |-> "events"]

\* a step that is taken once more when the last turn has been run
TurnsLeftInclusive(turn) == turn <= Time

\* self.turn < self.engine.time
TurnsLeft(turn) == turn < Time

\* ArkUI.step_simulation, up to the call of run_turn; run() goes on at back
\* when the step is over
StepSimulation(back) ==
    IF TurnsLeft(ui.turn)
    THEN /\ RunTurn(ui.turn)
         /\ ui' = [ui EXCEPT !.at = "in_turn", !.back = back]
    ELSE /\ ui' = [ui EXCEPT !.paused = TRUE, !.at = back]
         /\ UNCHANGED <<time_elapsed, pc, cur, world, sights, messages_to,
                        one_byte_message, action, mig, calls, error, ark,
                        ark_view, snapshot, migrates, strategy>>

\* the test of "while self.running"
NextFrame == IF ui.running THEN "events" ELSE "closed"

\* ArkUI.handle_events: one event of the loop over pygame.event.get()
HandleEvent ==
    /\ ui.at = "events"
    /\ \E event \in UIEvents :
        IF event = "right" /\ ui.paused
        THEN StepSimulation("events")
        ELSE /\ ui' = IF event = "quit" THEN [ui EXCEPT !.running = FALSE]
                      ELSE IF event = "space"
                      THEN [ui EXCEPT !.paused = ~ui.paused]
                      ELSE ui
             /\ UNCHANGED <<time_elapsed, pc, cur, world, sights, messages_to,
                            one_byte_message, action, mig, calls, error, ark,
                            ark_view, snapshot, migrates, strategy>>

\* ArkUI.run: the events are handled; step_simulation if not paused
AutoStep ==
    /\ ui.at = "events"
    /\ IF ~ui.paused
       THEN StepSimulation("draw")
       ELSE /\ ui' = [ui EXCEPT !.at = "draw"]
            /\ UNCHANGED <<time_elapsed, pc, cur, world, sights, messages_to,
                           one_byte_message, action, mig, calls, error, ark,
                           ark_view, snapshot, migrates, strategy>>

\* ArkUI.run: the frame is drawn and the loop goes round, or ends
DrawFrame ==
    /\ ui.at = "draw"
    /\ ui' = [ui EXCEPT !.at = NextFrame]
    /\ UNCHANGED <<time_elapsed, pc, cur, world, sights, messages_to,
                   one_byte_message, action, mig, calls, error, ark, ark_view,
                   snapshot, migrates, strategy>>

\* run_turn has returned to step_simulation: self.turn += 1
TurnReturns ==
    /\ ui.at = "in_turn"
    /\ RunTurnReturns
    /\ ui' = [ui EXCEPT !.turn = @ + 1, !.at = ui.back]
    /\ UNCHANGED time_elapsed

NextUI ==
    \/ HandleEvent
    \/ AutoStep
    \/ DrawFrame
    \/ Migrate
    \/ TurnReturns

SpecUI == InitUI /\ [][NextUI]_vars

\* ------------------------------------------------------------------------
\* Player9._get_random_move
\* ------------------------------------------------------------------------

RANDOM_ATTEMPTS == 10

\* random() - 0.5: an offset of [-0.5, 0.5) km
RandomOffsets == {d \in (-Scale)..Scale : -Scale <= 2 * d /\ 2 * d < Scale}

\* self.move_towards(x, y): some place, on the landscape or off it
MoveTowardsValues == MoveTargets

\* a helper about to call _get_random_move, anywhere on the landscape
InitRandomMove ==
    /\ time_elapsed = 0
    /\ pc = "get_action"
    /\ cur = 1
    /\ position \in [{1} -> Positions]
    /\ flock = <<{}>>
    /\ free_animals = <<>>
    /\ cell_animals = [c \in GridCells |-> {}]
    /\ cell_helpers = HelpersIn(DOMAIN cell_animals, position)
    /\ sights = <<<<>>>>
    /\ messages_to = <<<<>>>>
    /\ one_byte_message = 0
    /\ action = None
    /\ mig = 1
    /\ calls = CallsNone({1})
    /\ error = NoError
    /\ ark = {}
    /\ ark_view = NoView
    /\ snapshot = NoSnapshot
    /\ migrates = FALSE
    /\ strategy = [class |-> "Player9", at |-> "random", attempts |-> 0,
                   result |-> <<0, 0>>]
    /\ ui = NoUI

\* _get_random_move returns the place <<x, y>>
ReturnsPlace(x, y) ==
    strategy' = [strategy EXCEPT !.at = "returned", !.result = <<x, y>>]

\* a loop that goes on for as long as no draw is accepted
AttemptsOverNever(n) == FALSE

\* range(10) is exhausted after the attempt numbered n
AttemptsOver(n) == n + 1 >= RANDOM_ATTEMPTS

\* 1. one of the random tries
RandomAttempt ==
    /\ strategy.class = "Player9"
    /\ strategy.at = "random"
    /\ \E dx \in RandomOffsets : \E dy \in RandomOffsets :
        LET new_x == position[cur][1] + dx
            new_y == position[cur][2] + dy
        IN  IF CanMoveTo(position[cur], new_x, new_y)
            THEN ReturnsPlace(new_x, new_y)
            ELSE strategy' =
                    [strategy EXCEPT
                        !.attempts = @ + 1,
                        !.at = IF AttemptsOver(strategy.attempts)
                               THEN "center" ELSE "random"]
    /\ UNCHANGED <<time_elapsed, pc, cur, world, sights, messages_to,
                   one_byte_message, action, mig, calls, error, ark, ark_view,
                   snapshot, migrates, ui>>

\* 2. towards the center
FallbackCenter ==
    /\ strategy.class = "Player9"
    /\ strategy.at = "center"
    /\ \E new \in MoveTowardsValues :
        IF CanMoveTo(position[cur], new[1], new[2])
        THEN ReturnsPlace(new[1], new[2])
        ELSE strategy' = [strategy EXCEPT !.at = "ark"]
    /\ UNCHANGED <<time_elapsed, pc, cur, world, sights, messages_to,
                   one_byte_message, action, mig, calls, error, ark, ark_view,
                   snapshot, migrates, ui>>

\* 3. towards the ark, and 4. staying put
FallbackArk ==
    /\ strategy.class = "Player9"
    /\ strategy.at = "ark"
    /\ \E new \in MoveTowardsValues :
        IF CanMoveTo(position[cur], new[1], new[2])
        THEN ReturnsPlace(new[1], new[2])
        ELSE ReturnsPlace(position[cur][1], position[cur][2])
    /\ UNCHANGED <<time_elapsed, pc, cur, world, sights, messages_to,
                   one_byte_message, action, mig, calls, error, ark, ark_view,
                   snapshot, migrates, ui>>

NextRandomMove == RandomAttempt \/ FallbackCenter \/ FallbackArk

SpecRandomMove == InitRandomMove /\ [][NextRandomMove]_vars

\* ------------------------------------------------------------------------
\* Player9.shared_claims: the claims on cells, shared by all helpers of the
\* class
\* ------------------------------------------------------------------------

CLAIM_TTL == 6

\* a tick that lets a claim live on with a ttl of 0
TickClaimsLate(claims) ==
    [k \in {c \in DOMAIN claims : claims[c][2] - 1 >= 0} |->
        <<claims[k][1], claims[k][2] - 1>>]

\* the tick of check_surroundings: every ttl goes down by one, and the
\* claims whose ttl is then 0 or less are deleted
TickClaims(claims) ==
    [k \in {c \in DOMAIN claims : claims[c][2] - 1 > 0} |->
        <<claims[k][1], claims[k][2] - 1>>]

\* Player9.shared_claims[(x, y)] = (self.id, Player9.CLAIM_TTL), for each
\* cell of S
SetClaims(claims, S, id) ==
    [k \in DOMAIN claims \cup S |->
        IF k \in S THEN <<id, CLAIM_TTL>> ELSE claims[k]]

\* the landscape of the helpers that claim cells: a row of cells
ClaimW == 3
ClaimCells == (0..(ClaimW - 1)) \X (0..0)

\* the cells one get_action may claim one after the other: that of a nearby
\* collect, that of the helper's role, that of the corridor and that of
\* the chase
MaxClaimsPerCall == 4

\* if claim and claim[0] != self.id: continue -- the searches for a target
\* pass over the cells another helper holds a claim on
Claimable(claims, id) ==
    {c \in ClaimCells : c \in DOMAIN claims => claims[c][1] = id}

\* Player9 helpers behind a Noah, no claim made yet; the Engine calls them
\* turn after turn
InitClaims ==
    /\ time_elapsed = 0
    /\ pc = "check"
    /\ cur = 1
    /\ position = [h \in PlayerIds |-> <<0, 0>>]
    /\ flock = [h \in PlayerIds |-> {}]
    /\ free_animals = <<>>
    /\ cell_animals = [c \in ClaimCells |-> {}]
    /\ cell_helpers = HelpersIn(DOMAIN cell_animals, position)
    /\ sights = [h \in PlayerIds |-> <<>>]
    /\ messages_to = [h \in PlayerIds |-> <<>>]
    /\ one_byte_message = 0
    /\ action = None
    /\ mig = 1
    /\ calls = CallsNone(PlayerIds)
    /\ error = NoError
    /\ ark = {}
    /\ ark_view = NoView
    /\ snapshot = NoSnapshot
    /\ migrates = FALSE
    /\ \E has_flock \in BOOLEAN :
        strategy = [class |-> "Player9",
                    snapshot_flock |-> has_flock,
                    kind |-> [h \in PlayerIds |->
                                 IF h = 1 THEN "Noah" ELSE "Helper"],
                    shared_claims |-> <<>>]
    /\ ui = NoUI

\* the next helper of the pass, or the first helper of the next pass
NextCall(pass, other) ==
    IF cur < Len(position)
    THEN cur' = cur + 1 /\ pc' = pass
    ELSE cur' = 1 /\ pc' = other

\* check_surroundings of a Player9 helper: Noah leaves the claims alone, any
\* other helper reads snapshot.flock, which raises when the snapshot has
\* none, and then ticks the claims
CheckSurroundingsClaims ==
    /\ pc = "check"
    /\ strategy.class = "Player9"
    /\ IF /\ ReadsSnapshotFlock(strategy.class, strategy.kind[cur])
          /\ ~strategy.snapshot_flock
       THEN /\ error' = <<"attribute_error", cur, "flock">>
            /\ pc' = "aborted"
            /\ UNCHANGED <<cur, strategy>>
       ELSE /\ strategy' =
                IF strategy.kind[cur] = "Noah" THEN strategy
                ELSE [strategy EXCEPT !.shared_claims = TickClaims(@)]
            /\ NextCall("check", "get_action")
            /\ UNCHANGED error
    /\ UNCHANGED <<time_elapsed, world, sights, messages_to,
                   one_byte_message, action, mig, calls, ark, ark_view,
                   snapshot, migrates, ui>>

\* get_action of a Player9 helper: Noah returns at once; any other helper
\* claims the cell of each target it finds, and goes on to the next kind of
\* target when the move to the one it claimed is not to be made
GetActionClaims ==
    /\ pc = "get_action"
    /\ strategy.class = "Player9"
    /\ \/ strategy' = strategy
       \/ /\ strategy.kind[cur] # "Noah"
          /\ \E S \in SUBSET Claimable(strategy.shared_claims, cur) :
                /\ S # {}
                /\ Cardinality(S) <= MaxClaimsPerCall
                /\ strategy' = [strategy EXCEPT
                                !.shared_claims = SetClaims(@, S, cur)]
    /\ NextCall("get_action", "check")
    /\ UNCHANGED <<time_elapsed, world, sights, messages_to,
                   one_byte_message, action, mig, calls, error, ark, ark_view,
                   snapshot, migrates, ui>>

NextClaims == CheckSurroundingsClaims \/ GetActionClaims

SpecClaims == InitClaims /\ [][NextClaims]_vars

\* ------------------------------------------------------------------------
\* Player6 in two runs side by side: the runs start alike and differ only in
\* what the first helper does, which follows the order in which its sets of
\* animals are iterated; both helpers are Player6 and decide from the
\* module-level state of group6/player.py. The animals, the flocks and the
\* second helper's place are those of both runs; the first helper's place
\* and the module-level state of the first run are held by the variables of
\* the Engine and the fields of strategy, those of the second run by
\* strategy.twin
\* ------------------------------------------------------------------------

TwinW == 3
TwinH == 10

\* the turns of the two runs
TwinTime == 3

GRID_WIDTH == 1000
GRID_HEIGHT == 1000
PATROL_SPACING == 10

\* the cells and the places of a landscape tall enough for two helpers out
\* of each other's sight
TwinCells == (0..(TwinW - 1)) \X (0..(TwinH - 1))
TwinPlaces == (0..(TwinW * Scale - 1)) \X (0..(TwinH * Scale - 1))

\* the ids of the two helpers
TwinIdBases == {0, 1}

\* the larger of two numbers
Max(a, b) == IF a >= b THEN a ELSE b

\* round(a / b) of Python for a >= 0 and b > 0: the nearest integer, and
\* the even one of the two when a / b is halfway
PyRoundDiv(a, b) ==
    LET q == a \div b
        r == a % b
    IN  IF 2 * r < b THEN q
        ELSE IF 2 * r > b THEN q + 1
        ELSE IF q % 2 = 0 THEN q ELSE q + 1

\* the square of the distance between two places
Dist2(p, q) ==
    (p[1] - q[1]) * (p[1] - q[1]) + (p[2] - q[2]) * (p[2] - q[2])

\* (cellview.x, cellview.y) as a place
CellPlace(c) == <<c[1] * Scale, c[2] * Scale>>

\* what one kilometre towards a target, d away along an axis and the root
\* of n away in all, covers along that axis, to the nearest place
AxisStep(d, n) ==
    LET a == IF d < 0 THEN -d ELSE d
        z == 4 * Scale * Scale * a * a
        k == CHOOSE j \in 0..Scale :
                /\ j = 0 \/ (2 * j - 1) * (2 * j - 1) * n <= z
                /\ (2 * j + 1) * (2 * j + 1) * n > z
    IN  IF d < 0 THEN -k ELSE k

\* self.move_towards(x, y): the target if it is within one turn's reach,
\* else the place one kilometre towards it
MoveTowards(p, target) ==
    IF WithinKm(p, target, MAX_DISTANCE_KM) THEN target
    ELSE LET n == Dist2(p, target)
         IN  <<p[1] + AxisStep(target[1] - p[1], n),
               p[2] + AxisStep(target[2] - p[2], n)>>

\* helper.can_move_to(x, y) on the landscape of the two runs
TwinCanMoveTo(p, x, y) ==
    /\ <<x, y>> \in TwinPlaces
    /\ WithinKm(p, <<x, y>>, MAX_DISTANCE_KM)

\* Player6._claim_patrol_strip and _setup_patrol_parameters for the helper
\* id of num_helpers, with the strips of _initialize_global_patrol_strips:
\* strip i is owned by helper i, the first helpers_above of them lie above
\* the ark
PatrolParameters(id, num_helpers) ==
    LET ark_y == ArkCell[2]
        helpers_above ==
            Max(1, PyRoundDiv(num_helpers * ark_y, GRID_HEIGHT))
        strip_index == IF id < num_helpers THEN id ELSE id % num_helpers
        above == strip_index < helpers_above
        rows_above == Max(1, ark_y)
        rows_below == Max(1, GRID_HEIGHT - ark_y)
    IN  [patrol_row |->
            IF above
            THEN (id * Max(1, rows_above \div Max(1, helpers_above)))
                    % rows_above
            ELSE ark_y
                    + (((id - helpers_above)
                        * Max(1, rows_below
                                \div Max(1, num_helpers - helpers_above)))
                       % rows_below),
         patrol_max_row |-> IF above THEN ark_y ELSE GRID_HEIGHT,
         patrol_dir |-> id % 2 = 0,
         patrol_active |-> TRUE]

\* no target: the patrol is over
NoTarget == <<-1, -1>>

\* Player6._get_patrol_target with _advance_to_next_patrol_row: the target
\* and the patrol fields after the call. A helper that finishes its strip
\* finds no strip to take over (every strip that has no owner is done) and
\* stops patrolling
GetPatrolTarget(p, pt) ==
    LET cur_x == PyRoundDiv(p[1], Scale)
        cur_y == PyRoundDiv(p[2], Scale)
        x_min == 0
        x_max == GRID_WIDTH - 1
        RowY(row) == IF row < 0 THEN 0
                     ELSE IF row > GRID_HEIGHT - 1 THEN GRID_HEIGHT - 1
                     ELSE row
        EndX(dir) == IF dir THEN x_max ELSE x_min
        next_row == pt.patrol_row + PATROL_SPACING
    IN  IF ~pt.patrol_active THEN [target |-> NoTarget, patrol |-> pt]
        ELSE IF cur_x < x_min
        THEN [target |-> CellPlace(<<x_min, cur_y>>), patrol |-> pt]
        ELSE IF cur_x > x_max
        THEN [target |-> CellPlace(<<x_max, cur_y>>), patrol |-> pt]
        ELSE IF cur_x = EndX(pt.patrol_dir) /\ cur_y = RowY(pt.patrol_row)
        THEN IF next_row >= pt.patrol_max_row
             THEN [target |-> NoTarget,
                   patrol |-> [pt EXCEPT !.patrol_active = FALSE]]
             ELSE [target |-> CellPlace(<<EndX(~pt.patrol_dir),
                                          RowY(next_row)>>),
                   patrol |-> [pt EXCEPT !.patrol_row = next_row,
                                         !.patrol_dir = ~pt.patrol_dir]]
        ELSE [target |-> CellPlace(<<EndX(pt.patrol_dir),
                                     RowY(pt.patrol_row)>>),
              patrol |-> pt]

\* Player6._is_closest_helper_to: no helper of helper_snapshots is closer to
\* the target, nor as close with a lower id
IsClosestHelperTo(self, target, my_distance2, snapshots, id) ==
    \A other \in DOMAIN snapshots :
        other # self =>
            LET other_dist2 == Dist2(target, snapshots[other].position)
            IN  ~(\/ other_dist2 < my_distance2
                  \/ other_dist2 = my_distance2 /\ id[other] < id[self])

\* Player6._get_unclaimed_animals: the animals that are in no flock of
\* animals_in_flocks and that no helper chases (the ark is empty, so no
\* species is left out for being on the ark)
GetUnclaimedAnimals(animals, in_flocks, being_chased) ==
    (animals \ in_flocks) \ DOMAIN being_chased

\* the animals of the two runs
TwinAnimalIds == {1, 2}

\* the orders in which a set of animals may be iterated
TwinOrders ==
    {o \in [1..Cardinality(TwinAnimalIds) -> TwinAnimalIds] :
        \A i, j \in DOMAIN o : i # j => o[i] # o[j]}

\* Player6._get_species_priority, ten times over to stay in the integers,
\* of a helper that has had no message: population * 0.1 for a species of
\* which the ark cell has shown no animal, * 0.5 when it has shown one
\* gender, * 10 when both
GetSpeciesPriority(species_id, populations, status) ==
    LET population == IF species_id \in DOMAIN populations
                      THEN populations[species_id] ELSE 10
        s == IF species_id \in DOMAIN status THEN status[species_id]
             ELSE [male |-> FALSE, female |-> FALSE]
    IN  IF ~s.male /\ ~s.female THEN population
        ELSE IF ~(s.male /\ s.female) THEN population * 5
        ELSE population * 100

\* Player6._update_ark_status_from_ark: every animal the view of the ark's
\* cell shows marks its gender for its species
UpdateArkStatus(status, shown, species, gender) ==
    [s \in DOMAIN status \cup {species[a] : a \in shown} |->
        [male |-> \/ s \in DOMAIN status /\ status[s].male
                  \/ \E a \in shown :
                        species[a] = s /\ gender[a] = "Male",
         female |-> \/ s \in DOMAIN status /\ status[s].female
                    \/ \E a \in shown :
                        species[a] = s /\ gender[a] = "Female"]]

\* the first of the animals S in the iteration order
FirstIn(S, order) ==
    CHOOSE a \in S :
        \A b \in S :
            (CHOOSE i \in DOMAIN order : order[i] = a)
                <= (CHOOSE j \in DOMAIN order : order[j] = b)

\* Player6.get_action of the helper self, not a Noah, that stands at p with
\* the flock f and has had no message: the outcomes of the call, one unless
\* the move is a random one. It decides from its own snapshot (the rain,
\* the animals of the cells in sight) and from helper_snapshots,
\* animals_in_flocks, animals_being_chased and ark_species_status, which
\* all helpers share; st holds the ids of the helpers and the species of
\* the animals, order the order in which the sets of animals are iterated.
\* An outcome is what the call hands back with what it leaves in the patrol
\* fields of the helper and in animals_being_chased
Player6GetAction(self, p, f, animals, st, run, order) ==
    LET Outcome(act, patrol_fields, chased) ==
            [action |-> act, patrol |-> patrol_fields,
             animals_being_chased |-> chased]
        MoveTo(q) == Move(q[1], q[2])
        random_moves ==
            {q \in TwinPlaces :
                /\ q[1] - p[1] \in RandomOffsets
                /\ q[2] - p[2] \in RandomOffsets
                /\ TwinCanMoveTo(p, q[1], q[2])}
        snapshots == run.helper_snapshots
        in_flocks == run.animals_in_flocks
        being_chased == run.animals_being_chased
        pt == run.patrol[self]
        Priority(a) == GetSpeciesPriority(st.species[a], st.populations,
                                          run.ark_species_status)
        Unclaimed(c) == GetUnclaimedAnimals(animals[c], in_flocks,
                                            being_chased)
        here == Unclaimed(HelperCell(p))
        best_animal ==
            FirstIn({a \in here : \A b \in here : Priority(a) <= Priority(b)},
                    order)
        candidates ==
            {m \in TwinAnimalIds \X DOMAIN animals :
                /\ WithinKm(p, CellPlace(m[2]), MAX_SIGHT_KM)
                /\ m[1] \in Unclaimed(m[2])}
        Before(m, n) ==
            \/ Priority(m[1]) < Priority(n[1])
            \/ /\ Priority(m[1]) = Priority(n[1])
               /\ Dist2(p, CellPlace(m[2])) <= Dist2(p, CellPlace(n[2]))
        target_animal ==
            FirstIn({m[1] : m \in {n \in candidates :
                                    \A k \in candidates : Before(n, k)}},
                    order)
        c == CHOOSE d \in DOMAIN animals : <<target_animal, d>> \in candidates
        patrol == GetPatrolTarget(p, pt)
    IN  IF snapshots[self].is_raining \/ FlockFull(f)
        THEN {Outcome(MoveTo(MoveTowards(p, CellPlace(ArkCell))), pt,
                      being_chased)}
        ELSE IF here # {}
        THEN {Outcome(Obtain(best_animal), pt, being_chased)}
        ELSE IF /\ candidates # {}
                /\ IsClosestHelperTo(self, CellPlace(c),
                                     Dist2(p, CellPlace(c)), snapshots,
                                     st.id)
        THEN {Outcome(MoveTo(MoveTowards(p, CellPlace(c))), pt,
                      (target_animal :> st.id[self]) @@ being_chased)}
        ELSE IF patrol.target # NoTarget
        THEN {Outcome(MoveTo(MoveTowards(p, patrol.target)), patrol.patrol,
                      being_chased)}
        ELSE {Outcome(MoveTo(q), patrol.patrol, being_chased) :
                q \in random_moves}

\* the module-level state of group6/player.py and the patrol fields of the
\* helpers, as one run has them
TwinShared(snapshots, in_flocks, being_chased, status, pt) ==
    [helper_snapshots |-> snapshots,
     animals_in_flocks |-> in_flocks,
     animals_being_chased |-> being_chased,
     ark_species_status |-> status,
     patrol |-> pt]

\* where the first helper may start: on a whole kilometre of the first
\* column
TwinStarts == {p \in TwinPlaces : p[1] = 0 /\ p[2] % Scale = 0}

\* two runs of two Player6 helpers out of each other's sight, with two
\* animals in cells of the first column and the ark empty. The runs start
\* alike; helper_snapshots, animals_in_flocks, animals_being_chased and
\* ark_species_status are empty at the start. The species and the gender of an animal never change and
\* are kept with the strategy; the population of a species is the number of
\* its animals
InitTwin ==
    /\ time_elapsed = 0
    /\ pc = "check"
    /\ cur = 1
    /\ position \in {p \in [{1, 2} -> TwinPlaces] :
                        /\ p[1] \in TwinStarts
                        /\ p[2][1] <= Scale /\ p[2][2] = 0
                        /\ ~InSight(p[1], p[2])}
    /\ flock = <<{}, {}>>
    /\ \E place \in [TwinAnimalIds -> {d \in TwinCells :
                                        d[1] = 0 /\ d[2] \in {0, 2, 4}}] :
        /\ free_animals = [a \in TwinAnimalIds |-> <<a, place[a]>>]
        /\ cell_animals =
            [d \in TwinCells |-> {a \in TwinAnimalIds : place[a] = d}]
    /\ cell_helpers = HelpersIn(DOMAIN cell_animals, position)
    /\ sights = <<<<>>, <<>>>>
    /\ messages_to = <<<<>>, <<>>>>
    /\ one_byte_message = 0
    /\ action = None
    /\ mig = 1
    /\ calls = CallsNone({1, 2})
    /\ error = NoError
    /\ ark = {}
    /\ ark_view = NoView
    /\ snapshot = NoSnapshot
    /\ migrates = FALSE
    /\ \E base \in TwinIdBases : \E has_flock \in BOOLEAN :
       \E species \in [TwinAnimalIds -> {0, 1}] :
       \E gender \in [TwinAnimalIds -> {"Male", "Female"}] :
        LET shared == TwinShared(<<>>, {}, <<>>, <<>>,
                                 <<PatrolParameters(base, 2),
                                   PatrolParameters(base + 1, 2)>>)
        IN  /\ species[1] = 0
            /\ gender[1] = "Male"
            /\ strategy =
                [class |-> "Player6",
                 snapshot_flock |-> has_flock,
                 id |-> <<base, base + 1>>,
                 species |-> species,
                 gender |-> gender,
                 populations |->
                    [s \in {species[a] : a \in TwinAnimalIds} |->
                        Cardinality({a \in TwinAnimalIds :
                                        species[a] = s})],
                 helper_snapshots |-> shared.helper_snapshots,
                 animals_in_flocks |-> shared.animals_in_flocks,
                 animals_being_chased |-> shared.animals_being_chased,
                 ark_species_status |-> shared.ark_species_status,
                 patrol |-> shared.patrol,
                 chosen |-> None,
                 twin |-> [position |-> position,
                           helper_snapshots |-> shared.helper_snapshots,
                           animals_in_flocks |-> shared.animals_in_flocks,
                           animals_being_chased |->
                                shared.animals_being_chased,
                           ark_species_status |->
                                shared.ark_species_status,
                           patrol |-> shared.patrol,
                           action |-> None,
                           chosen |-> None,
                           error |-> NoError]]
    /\ ui = NoUI

\* _update_snapshot and _update_global_animal_tracking of the helper h at p
\* in the run that has the module-level state run: the snapshot, of which
\* the helpers read the position, the rain and the flock, is stored,
\* a helper in the ark's cell, whose view of its own cell shows the genders,
\* marks the genders of the animals of that cell,
\* animals_in_flocks is built anew from the flocks of the snapshots and the
\* animals in it are taken out of animals_being_chased
TwinTracked(run, h, p) ==
    LET snapshot_h ==
            [position |-> p,
             is_raining |-> time_elapsed >= TwinTime - START_RAIN,
             flock |-> flock[h]]
        snapshots == (h :> snapshot_h) @@ run.helper_snapshots
        in_flocks == UNION {snapshots[g].flock : g \in DOMAIN snapshots}
    IN  TwinShared(snapshots, in_flocks,
                   [a \in DOMAIN run.animals_being_chased \ in_flocks |->
                        run.animals_being_chased[a]],
                   IF HelperCell(p) = ArkCell
                   THEN UpdateArkStatus(run.ark_species_status,
                                        cell_animals[ArkCell],
                                        strategy.species, strategy.gender)
                   ELSE run.ark_species_status,
                   run.patrol)

\* check_surroundings of the helper cur in both runs, the helpers being out
\* of each other's sight in both: _update_snapshot reads snapshot.flock,
\* which raises when the snapshot has none; the byte reaches no one
TwinCheckSurroundings ==
    /\ pc = "check"
    /\ strategy.class = "Player6"
    /\ ~InSight(position[1], position[2])
    /\ ~InSight(strategy.twin.position[1], strategy.twin.position[2])
    /\ IF ~strategy.snapshot_flock
       THEN /\ error' = <<"attribute_error", cur, "flock">>
            /\ strategy' = [strategy EXCEPT !.twin.error =
                                <<"attribute_error", cur, "flock">>]
            /\ pc' = "aborted"
            /\ UNCHANGED cur
       ELSE LET r1 == TwinTracked(strategy, cur, position[cur])
                r2 == TwinTracked(strategy.twin, cur,
                                  strategy.twin.position[cur])
            IN  /\ strategy' =
                    [strategy EXCEPT
                        !.helper_snapshots = r1.helper_snapshots,
                        !.animals_in_flocks = r1.animals_in_flocks,
                        !.animals_being_chased = r1.animals_being_chased,
                        !.ark_species_status = r1.ark_species_status,
                        !.twin.helper_snapshots = r2.helper_snapshots,
                        !.twin.animals_in_flocks = r2.animals_in_flocks,
                        !.twin.animals_being_chased =
                            r2.animals_being_chased,
                        !.twin.ark_species_status = r2.ark_species_status]
                /\ NextCall("check", "get_action")
                /\ UNCHANGED error
    /\ UNCHANGED <<time_elapsed, world, sights, messages_to,
                   one_byte_message, action, mig, calls, ark, ark_view,
                   snapshot, migrates, ui>>

\* the first helper acts in both runs as Player6.get_action has it, its
\* sets of animals being iterated in an order of their own in each run. The
\* two runs share the animals: the step is one in which the helper moves in
\* both runs, or obtains the same animal in both from a cell the second
\* helper does not see. The flock an Obtain adds to is the one the stored
\* snapshot of the helper holds (self.flock = snapshot.flock). A Move the
\* Engine refuses ends the run with the first helper the current one
TwinOtherActs ==
    /\ pc = "get_action"
    /\ strategy.class = "Player6"
    /\ cur = 1
    /\ \E order1 \in TwinOrders : \E order2 \in TwinOrders :
       \E o1 \in Player6GetAction(1, position[1], flock[1], cell_animals,
                                    strategy, strategy, order1) :
       \E o2 \in Player6GetAction(1, strategy.twin.position[1], flock[1],
                                    cell_animals, strategy, strategy.twin,
                                    order2) :
        LET act1 == o1.action
            act2 == o2.action
            p1 == position[1]
            p2 == strategy.twin.position[1]
            moves1 == TwinCanMoveTo(p1, act1.x, act1.y)
            moves2 == TwinCanMoveTo(p2, act2.x, act2.y)
            obtained == IF act1.kind = "Obtain"
                        THEN FlockAdd(flock[1], act1.animal) ELSE flock[1]
        IN  /\ \/ act1.kind = "Move" /\ act2.kind = "Move"
               \/ /\ act1.kind = "Obtain" /\ act2 = act1
                  /\ HelperCell(p1) = HelperCell(p2)
                  /\ ~WithinKm(position[2], CellPlace(HelperCell(p1)),
                               MAX_SIGHT_KM)
            /\ action' = act1
            /\ IF act1.kind = "Obtain"
               THEN /\ cell_animals' =
                        CellRemove(cell_animals, HelperCell(p1), act1.animal)
                    /\ free_animals' = DictDel(free_animals, act1.animal)
                    /\ flock' = [flock EXCEPT
                                    ![1] = FlockAdd(@, act1.animal)]
                    /\ UNCHANGED <<position, error>>
                    /\ pc' = pc
                    /\ cur' = 2
               ELSE /\ position' =
                        IF moves1
                        THEN [position EXCEPT ![1] = <<act1.x, act1.y>>]
                        ELSE position
                    /\ error' =
                        IF moves1 THEN error
                        ELSE <<"cannot_move", 1, p1, <<act1.x, act1.y>> >>
                    /\ pc' = IF moves1 THEN pc ELSE "aborted"
                    /\ cur' = IF moves1 THEN 2 ELSE cur
                    /\ UNCHANGED <<flock, cell_animals, free_animals>>
            /\ strategy' =
                [strategy EXCEPT
                    !.helper_snapshots[1].flock = obtained,
                    !.animals_being_chased = o1.animals_being_chased,
                    !.patrol[1] = o1.patrol,
                    !.twin.helper_snapshots[1].flock = obtained,
                    !.twin.animals_being_chased = o2.animals_being_chased,
                    !.twin.patrol[1] = o2.patrol,
                    !.twin.action = act2,
                    !.twin.position[1] =
                        IF act2.kind = "Move" /\ moves2
                        THEN <<act2.x, act2.y>> ELSE @,
                    !.twin.error =
                        IF act2.kind = "Move" /\ ~moves2
                        THEN <<"cannot_move", 1, p2, <<act2.x, act2.y>> >>
                        ELSE @]
    /\ UNCHANGED <<time_elapsed, cell_helpers, sights, messages_to,
                   one_byte_message, mig, calls, ark, ark_view, snapshot,
                   migrates, ui>>

\* the second helper acts in both runs, neither of which has ended, its
\* sets of animals being iterated alike in both; what get_action returned
\* is kept in chosen. An action chosen alike in both runs is resolved by
\* the Engine, which goes on to the migration; the flock an Obtain adds to
\* is the one the stored snapshot of the helper holds. Actions that differ
\* end the comparison
TwinHelperActs ==
    /\ pc = "get_action"
    /\ strategy.class = "Player6"
    /\ cur = 2
    /\ strategy.twin.error = NoError
    /\ \E order \in TwinOrders :
       \E o1 \in Player6GetAction(2, position[2], flock[2], cell_animals,
                                    strategy, strategy, order) :
       \E o2 \in Player6GetAction(2, strategy.twin.position[2], flock[2],
                                    cell_animals, strategy, strategy.twin,
                                    order) :
        LET act1 == o1.action
            act2 == o2.action
            p == position[2]
            alike == act1 = act2
            moves == act1.kind = "Move" /\ TwinCanMoveTo(p, act1.x, act1.y)
            obtains == /\ act1.kind = "Obtain"
                       /\ ~NotInCell(act1.animal, HelperCell(p), cell_animals)
            raised ==
                IF act1.kind = "Move"
                THEN <<"cannot_move", 2, p, <<act1.x, act1.y>> >>
                ELSE <<"not_in_cell", 2, act1.animal, HelperCell(p)>>
            obtained == IF alike /\ obtains
                        THEN FlockAdd(flock[2], act1.animal) ELSE flock[2]
        IN  /\ action' = act1
            /\ position' =
                IF alike /\ moves
                THEN [position EXCEPT ![2] = <<act1.x, act1.y>>]
                ELSE position
            /\ IF alike /\ obtains
               THEN /\ cell_animals' =
                        CellRemove(cell_animals, HelperCell(p), act1.animal)
                    /\ free_animals' = DictDel(free_animals, act1.animal)
                    /\ flock' = [flock EXCEPT
                                    ![2] = FlockAdd(@, act1.animal)]
               ELSE UNCHANGED <<flock, cell_animals, free_animals>>
            /\ error' = IF alike /\ ~moves /\ ~obtains THEN raised ELSE error
            /\ strategy' =
                [strategy EXCEPT
                    !.helper_snapshots[2].flock = obtained,
                    !.animals_being_chased = o1.animals_being_chased,
                    !.patrol[2] = o1.patrol,
                    !.chosen = act1,
                    !.twin.helper_snapshots[2].flock = obtained,
                    !.twin.animals_being_chased = o2.animals_being_chased,
                    !.twin.patrol[2] = o2.patrol,
                    !.twin.action = act2,
                    !.twin.chosen = act2,
                    !.twin.position[2] =
                        IF alike /\ moves THEN <<act2.x, act2.y>> ELSE @,
                    !.twin.error =
                        IF alike /\ ~moves /\ ~obtains THEN raised ELSE @]
            /\ pc' = IF ~alike THEN "done"
                     ELSE IF moves \/ obtains THEN "migrate" ELSE "aborted"
            /\ cur' = IF alike /\ (moves \/ obtains) THEN 1 ELSE cur
    /\ mig' = 1
    /\ UNCHANGED <<time_elapsed, cell_helpers, sights, messages_to,
                   one_byte_message, calls, ark, ark_view, snapshot,
                   migrates, ui>>

\* Cell.get_emptiest_neighbors on the landscape of the two runs, where
\* every cell has a link: the links are taken in the order up, down, left,
\* right
TwinEmptiestNeighbors(c, animals) ==
    LET cand == << <<c[1], c[2] - 1>>, <<c[1], c[2] + 1>>,
                   <<c[1] - 1, c[2]>>, <<c[1] + 1, c[2]>> >>
        dirs == SelectSeq(cand, LAMBDA n : n \in TwinCells)
        min_animals == MinAnimals(dirs, animals)
    IN  SelectSeq(dirs, LAMBDA d : Cardinality(animals[d]) = min_animals)

\* one round of "for animal, cell in self.free_animals.items()", the same in
\* both runs: the animal stays, or moves to one of the emptiest neighbors of
\* its cell
TwinMigrate ==
    /\ pc = "migrate"
    /\ strategy.class = "Player6"
    /\ mig <= Len(free_animals)
    /\ LET animal == free_animals[mig][1]
           cell == free_animals[mig][2]
           neighbors == TwinEmptiestNeighbors(cell, cell_animals)
       IN  \E moves \in BOOLEAN :
            /\ migrates' = moves
            /\ IF ~moves
               THEN UNCHANGED <<cell_animals, free_animals>>
               ELSE \E i \in 1..Len(neighbors) :
                    /\ cell_animals' =
                        CellAdd(CellRemove(cell_animals, cell, animal),
                                neighbors[i], animal)
                    /\ free_animals' =
                        DictSet(free_animals, animal, neighbors[i])
    /\ mig' = mig + 1
    /\ UNCHANGED <<time_elapsed, pc, cur, position, flock, cell_helpers,
                   sights, messages_to, one_byte_message, action, calls,
                   error, ark, ark_view, snapshot, strategy, ui>>

\* the migration loop is over: run_turn returns, and run_simulation goes on
\* to the next turn or ends
TwinEndTurn ==
    /\ pc = "migrate"
    /\ strategy.class = "Player6"
    /\ mig > Len(free_animals)
    /\ time_elapsed' = time_elapsed + 1
    /\ pc' = IF time_elapsed + 1 < TwinTime THEN "check" ELSE "done"
    /\ mig' = 1
    /\ migrates' = FALSE
    /\ UNCHANGED <<cur, world, sights, messages_to, one_byte_message,
                   action, calls, error, ark, ark_view, snapshot, strategy,
                   ui>>

NextTwin ==
    \/ TwinCheckSurroundings
    \/ TwinOtherActs
    \/ TwinHelperActs
    \/ TwinMigrate
    \/ TwinEndTurn

SpecTwin == InitTwin /\ [][NextTwin]_vars

\* ------------------------------------------------------------------------
\* Claims
\* ------------------------------------------------------------------------

BetweenTurns == pc \in {"turn_start", "done"}

\* the containers an animal is a member of: cells' animal sets and flocks
Containers(a) ==
    {<<"cell", c>> : c \in {d \in Cells : a \in cell_animals[d]}}
        \cup {<<"flock", h>> : h \in {g \in Helpers : a \in flock[g]}}

RECURSIVE SumOver(_, _)
SumOver(S, f) ==
    IF S = {} THEN 0
    ELSE LET e == CHOOSE x \in S : TRUE
         IN  Cardinality(f[e]) + SumOver(S \ {e}, f)

\* C1: between turns every animal is in exactly one container (one cell's
\* animal set or one helper's flock) and the containers together hold as
\* many animals as at the start.
C1_ExactlyOneContainer ==
    BetweenTurns =>
        /\ \A a \in Animals : Cardinality(Containers(a)) = 1
        /\ SumOver(Cells, cell_animals) + SumOver(Helpers, flock) = NumAnimals

\* C2: between turns the free-animal index and the cells' animal sets
\* agree: free_animals[a] = c exactly when a is in c.animals.
C2_IndexAgreesWithCells ==
    BetweenTurns =>
        \A a \in Animals : \A c \in Cells :
            (a \in DictKeys(free_animals) /\ DictGet(free_animals, a) = c)
                <=> a \in cell_animals[c]

\* C3: a Release(a) of an animal in the helper's flock takes a out of the
\* flock and puts it in the animal set of the cell at the truncated
\* position of the helper.
C3_ReleasePlacesInCell ==
    [][(/\ pc = "resolve"
        /\ action.kind = "Release"
        /\ action.animal \in flock[cur])
       => (/\ action.animal \notin flock'[cur]
           /\ action.animal \in
                cell_animals'[<<position[cur][1] \div Scale,
                                position[cur][2] \div Scale>>])]_vars

\* the cell a helper stands in: its position truncated to whole kilometres
StandsIn(h) == <<position[h][1] \div Scale, position[h][2] \div Scale>>

Aborts == pc' = "aborted" /\ error' # NoError

\* C4: an Obtain(a) of an animal that is not in the animal set of the
\* helper's cell aborts the run and leaves flocks, cells and the
\* free-animal index as they were.
C4_ObtainAbsentAborts ==
    [][(/\ pc = "resolve"
        /\ action.kind = "Obtain"
        /\ action.animal \notin cell_animals[StandsIn(cur)])
       => (/\ Aborts
           /\ flock' = flock
           /\ cell_animals' = cell_animals
           /\ free_animals' = free_animals)]_vars

\* a run aborted by an Obtain of an animal that another helper holds
C4_Witness ==
    /\ pc = "aborted"
    /\ action.kind = "Obtain"
    /\ error[1] = "not_in_cell"
    /\ \E h \in Helpers : action.animal \in flock[h]

\* C5: an Obtain(a) by a helper whose flock holds MAX_FLOCK_SIZE animals,
\* for an animal present in its cell, aborts the run; a stays in the cell's
\* set and in the index, and the flock is unchanged.
C5_ObtainFullFlockAborts ==
    [][(/\ pc = "resolve"
        /\ action.kind = "Obtain"
        /\ Cardinality(flock[cur]) = MAX_FLOCK_SIZE
        /\ action.animal \in cell_animals[StandsIn(cur)])
       => (/\ Aborts
           /\ action.animal \in cell_animals'[StandsIn(cur)]
           /\ action.animal \in DictKeys(free_animals')
           /\ DictGet(free_animals', action.animal) = StandsIn(cur)
           /\ flock' = flock)]_vars

\* a run aborted by a full helper asking for an animal of its own cell
C5_Witness ==
    /\ pc = "aborted"
    /\ action.kind = "Obtain"
    /\ error[1] = "full_flock"
    /\ Cardinality(flock[cur]) = MAX_FLOCK_SIZE
    /\ action.animal \in cell_animals[StandsIn(cur)]

\* C6: an accepted Obtain(a) takes a out of the cell's set and out of the
\* index, adds it to the helper's flock, and changes no other animal, cell,
\* flock or position.
C6_ObtainAccepted ==
    [][(/\ pc = "resolve"
        /\ action.kind = "Obtain"
        /\ Cardinality(flock[cur]) < MAX_FLOCK_SIZE
        /\ action.animal \in cell_animals[StandsIn(cur)])
       => (/\ pc' # "aborted"
           /\ cell_animals'[StandsIn(cur)]
                = cell_animals[StandsIn(cur)] \ {action.animal}
           /\ \A c \in Cells \ {StandsIn(cur)} :
                cell_animals'[c] = cell_animals[c]
           /\ DictKeys(free_animals')
                = DictKeys(free_animals) \ {action.animal}
           /\ \A b \in DictKeys(free_animals') :
                DictGet(free_animals', b) = DictGet(free_animals, b)
           /\ flock'[cur] = flock[cur] \cup {action.animal}
           /\ \A h \in Helpers \ {cur} : flock'[h] = flock[h]
           /\ position' = position)]_vars

\* the last helper, built with an empty flock, holds an animal
C6_Witness ==
    /\ pc \in {"get_action", "migrate"}
    /\ flock[NumHelpers] # {}
    /\ \A a \in flock[NumHelpers] :
        /\ a \notin DictKeys(free_animals)
        /\ \A c \in Cells : a \notin cell_animals[c]

\* C7: a Release(a) of an animal that is not in the helper's flock aborts
\* the run and leaves flocks, the index and the cells as they were.
C7_ReleaseNotHeldAborts ==
    [][(/\ pc = "resolve"
        /\ action.kind = "Release"
        /\ action.animal \notin flock[cur])
       => (/\ Aborts
           /\ flock' = flock
           /\ free_animals' = free_animals
           /\ cell_animals' = cell_animals)]_vars

\* a run aborted by a Release of an animal that is free in a cell
C7_Witness ==
    /\ pc = "aborted"
    /\ action.kind = "Release"
    /\ error[1] = "not_in_flock"
    /\ action.animal \in DictKeys(free_animals)

\* C8: a Move(x, y) is accepted exactly when can_move_to(x, y) holds; an
\* accepted Move sets the helper's position to (x, y) and changes nothing
\* else of the world; a rejected Move aborts the run and moves nobody.
C8_MoveAcceptedIffCanMoveTo ==
    [][(pc = "resolve" /\ action.kind = "Move")
       => IF CanMoveTo(position[cur], action.x, action.y)
          THEN /\ pc' # "aborted"
               /\ error' = NoError
               /\ position'[cur] = <<action.x, action.y>>
               /\ \A h \in Helpers \ {cur} : position'[h] = position[h]
               /\ flock' = flock
               /\ cell_animals' = cell_animals
               /\ free_animals' = free_animals
          ELSE /\ Aborts
               /\ position' = position]_vars

\* the first helper has moved to a place where no helper started, and the
\* run is then aborted by a Move that was refused
C8_Witness ==
    /\ pc = "aborted"
    /\ action.kind = "Move"
    /\ error[1] = "cannot_move"
    /\ position[1] \notin InitPositions

\* C9: a check_surroundings value outside [0, 256) aborts the run in that
\* turn; no get_action has been called in the turn, and positions, flocks,
\* cells and the index are as at the start of the turn (nothing touches
\* them from the start of the turn to the end of the signal pass).
C9_BadSignalAbortsBeforeActions ==
    [][/\ (pc \in {"turn_start", "check", "route"})
            => (/\ world' = world
                /\ \A h \in Helpers : calls'.action[h] = 0)
       /\ (pc = "route" /\ (one_byte_message < 0 \/ one_byte_message >= 256))
            => (/\ Aborts
                /\ time_elapsed' = time_elapsed)]_vars

\* the second turn is aborted by the byte of the last helper
C9_Witness ==
    /\ pc = "aborted"
    /\ error[1] = "bad_message"
    /\ cur = NumHelpers
    /\ time_elapsed = 1
    /\ (one_byte_message < 0 \/ one_byte_message >= 256)

\* the squared distance between two helpers, in position units
DistSq(pos, a, b) ==
    (pos[a][1] - pos[b][1]) * (pos[a][1] - pos[b][1])
        + (pos[a][2] - pos[b][2]) * (pos[a][2] - pos[b][2])

\* C10: the neighbor lists of _get_sights are symmetric, hold no helper
\* twice, never hold the helper itself, and hold exactly the helpers within
\* MAX_SIGHT_KM.
C10_SightsSymmetric ==
    pc = "check" =>
        \A a \in DOMAIN position :
            /\ \A i, j \in 1..Len(sights[a]) :
                    sights[a][i] = sights[a][j] => i = j
            /\ \A i \in 1..Len(sights[a]) : sights[a][i] # a
            /\ \A b \in DOMAIN position :
                /\ (\E i \in 1..Len(sights[a]) : sights[a][i] = b)
                     <=> (\E j \in 1..Len(sights[b]) : sights[b][j] = a)
                /\ a # b =>
                    ((\E i \in 1..Len(sights[a]) : sights[a][i] = b)
                        <=> DistSq(position, a, b)
                                <= (MAX_SIGHT_KM * Scale) * (MAX_SIGHT_KM * Scale))

\* three helpers of which the first sees the second at exactly 5 km and
\* does not see the third
C10_Witness ==
    /\ pc = "check"
    /\ Len(sights) = 3
    /\ DistSq(position, 1, 2) = (MAX_SIGHT_KM * Scale) * (MAX_SIGHT_KM * Scale)
    /\ sights[1] = <<2>>
    /\ sights[3] # <<>>

\* the helpers within MAX_SIGHT_KM of helper h, by their positions
Nearby(h) ==
    {n \in DOMAIN position \ {h} :
        DistSq(position, h, n) <= (MAX_SIGHT_KM * Scale) * (MAX_SIGHT_KM * Scale)}

\* the places in the inbox of helper h of the messages sent by helper n
MessagesFrom(h, n) ==
    {i \in 1..Len(messages_to[h]) : messages_to[h][i].from_helper = n}

\* C11: when the signal pass is over, a helper with k helpers within
\* MAX_SIGHT_KM holds exactly k messages, one from each of them, carrying
\* the byte that helper returned from check_surroundings this turn; it holds
\* no message from a helper farther away.
C11_OneMessagePerNeighbor ==
    pc = "get_action" =>
        \A h \in DOMAIN position :
            /\ Len(messages_to[h]) = Cardinality(Nearby(h))
            /\ \A n \in Nearby(h) :
                /\ Cardinality(MessagesFrom(h, n)) = 1
                /\ \A i \in MessagesFrom(h, n) :
                        messages_to[h][i].contents = calls.signal[n]
            /\ \A n \in DOMAIN position \ Nearby(h) : MessagesFrom(h, n) = {}

\* the first helper has two neighbors that sent different bytes, and these
\* two are out of each other's sight
C11_Witness ==
    /\ pc = "get_action"
    /\ Cardinality(Nearby(1)) = 2
    /\ Nearby(2) = {1}
    /\ Nearby(3) = {1}
    /\ Len(messages_to[1]) = 2
    /\ messages_to[1][1].contents # messages_to[1][2].contents
    /\ Len(messages_to[2]) = 1

\* every helper has been shown its surroundings once and holds the messages
\* of all its neighbors
SignalPassOver ==
    \A h \in DOMAIN position :
        /\ calls.check[h] = 1
        /\ Len(messages_to[h]) = Len(sights[h])

\* every helper has been asked once for its action, and none is pending
ActionPassOver ==
    /\ \A h \in DOMAIN position : calls.action[h] = 1
    /\ action = None

\* C12: within a turn the phases run in a fixed order: no get_action call
\* is made while a check_surroundings call or a delivery of the turn is
\* still to come; no animal migrates while an action of the turn is still to
\* be asked for or resolved; no helper is called twice in a turn, and when
\* the migration runs every helper has had check_surroundings and get_action
\* called exactly once.
C12_PhasesInOrder ==
    /\ pc \in {"check", "route"} =>
            \A h \in DOMAIN position : calls.action[h] = 0
    /\ pc \in {"get_action", "resolve"} => SignalPassOver
    /\ pc \in {"check", "route", "get_action", "resolve"} =>
            (mig = 1 /\ ~migrates)
    /\ pc = "migrate" => (SignalPassOver /\ ActionPassOver)
    /\ \A h \in DOMAIN position :
            /\ calls.check[h] <= 1
            /\ calls.action[h] <= 1

\* the end of the second turn, in which messages were delivered and a free
\* animal migrated
C12_Witness ==
    /\ pc = "migrate"
    /\ mig > Len(free_animals)
    /\ migrates
    /\ SignalPassOver
    /\ ActionPassOver
    /\ \E h \in DOMAIN position : Len(messages_to[h]) > 0
    /\ time_elapsed = 1

\* the steps run_turn has still to make, at most, before it returns
StepsLeftInTurn ==
    LET n == Len(position)
        m == NumAnimals + 2
    IN  CASE pc = "turn_start" -> m + 4 * n + 1
          [] pc = "check"      -> m + 2 * n + 2 * (n - cur) + 2
          [] pc = "route"      -> m + 2 * n + 2 * (n - cur) + 1
          [] pc = "get_action" -> m + 2 * (n - cur) + 2
          [] pc = "resolve"    -> m + 2 * (n - cur) + 1
          [] pc = "migrate"    -> 2 + Len(free_animals) - mig
          [] OTHER             -> 0

\* the steps run_simulation has still to make, at most: it decreases with
\* every step, so that no run goes on for ever
StepsLeft ==
    IF pc \in {"done", "aborted"} THEN 0
    ELSE (Time - time_elapsed) * (NumAnimals + 4 * Len(position) + 4)
            + StepsLeftInTurn

\* C13: run_simulation calls run_turn with time_elapsed = 0, 1, ..., time - 1
\* in this order, each index once, and then ends: the first turn has index
\* 0, a turn begins only with an index below time, the index changes only
\* by one, when a turn returns, and the next turn begins only then; the run
\* ends without error only after turn time - 1, and it cannot go on for ever.
C13_TurnsInOrderThenStop ==
    /\ time_elapsed = 0 /\ pc = "turn_start"
    /\ [][/\ (pc = "turn_start" /\ pc' # "done")
                => (0 <= time_elapsed /\ time_elapsed < Time
                        /\ time_elapsed' = time_elapsed)
          /\ (time_elapsed' # time_elapsed \/ pc' = "turn_start")
                => (pc = "migrate" /\ pc' = "turn_start"
                        /\ time_elapsed' = time_elapsed + 1)
          /\ pc' = "done"
                => (pc = "turn_start" /\ time_elapsed = Time
                        /\ time_elapsed' = Time /\ error' = NoError)
          /\ StepsLeft' < StepsLeft
          /\ StepsLeft' >= 0]_vars

\* the run has ended after its last turn, with a free animal left in a cell
C13_Witness ==
    /\ pc = "done"
    /\ time_elapsed = Time
    /\ error = NoError
    /\ \E i \in 1..Len(free_animals) :
            free_animals[i][1] \in cell_animals[free_animals[i][2]]

\* C14: once a fatal error has occurred nothing further happens: the step
\* that raises it changes neither the world nor the turn index, and no step
\* follows it, so that no later helper acts, no animal migrates and no later
\* turn begins; what the turn had changed before the error stays changed.
C14_FatalErrorStopsRun ==
    [][/\ error = NoError
       /\ pc # "aborted"
       /\ error' # NoError
            => (pc' = "aborted" /\ world' = world
                    /\ time_elapsed' = time_elapsed /\ cur' = cur
                    /\ mig' = mig)
       /\ pc' = "aborted" => error' # NoError]_vars

\* the second helper's Obtain was refused in the first turn, after the first
\* helper had taken an animal, which it keeps; no animal has migrated
C14_Witness ==
    /\ pc = "aborted"
    /\ error[1] = "not_in_cell"
    /\ time_elapsed = 0
    /\ cur = 2
    /\ \E a \in flock[1] : a \notin DictKeys(free_animals) /\ a = error[3]
    /\ ~migrates
    /\ mig = 1

\* the cells of the grid one step up, down, left or right of cell c
Adjacent(c) ==
    {n \in Cells :
        (n[1] - c[1]) * (n[1] - c[1]) + (n[2] - c[2]) * (n[2] - c[2]) = 1}

\* the free animal whose turn it is to migrate, and its cell in the index
MigAnimal == free_animals[mig][1]
MigCell == free_animals[mig][2]

\* C15: a free animal selected to migrate in a cell with a linked neighbor
\* moves to a linked neighbor that holds, at the moment of the move, the
\* fewest animals of all linked neighbors; after the move it is in that
\* cell's set, no longer in the set of the cell it left, and the index maps
\* it to that cell.
C15_MovesToEmptiestNeighbor ==
    [][(pc = "migrate" /\ mig <= Len(free_animals) /\ migrates'
            /\ Adjacent(MigCell) # {})
        => \E dest \in Adjacent(MigCell) :
            /\ \A n \in Adjacent(MigCell) :
                    Cardinality(cell_animals[dest])
                        <= Cardinality(cell_animals[n])
            /\ MigAnimal \in cell_animals'[dest]
            /\ MigAnimal \notin cell_animals'[MigCell]
            /\ DictGet(free_animals', MigAnimal) = dest
            /\ error' = NoError]_vars

\* C16: when the free animal whose turn it is stands in a cell without any
\* linked neighbor, the run aborts if the animal is selected to migrate, with
\* the world and the turn index as they were; if it is not selected, nothing
\* changes and the migration goes on with the next animal.
C16_NoNeighborAbortsIfSelected ==
    [][(pc = "migrate" /\ mig <= Len(free_animals) /\ Adjacent(MigCell) = {})
        => IF migrates'
           THEN /\ pc' = "aborted"
                /\ error' = <<"no_neighbors", MigAnimal, MigCell>>
                /\ world' = world
                /\ time_elapsed' = time_elapsed
           ELSE /\ pc' = "migrate"
                /\ error' = NoError
                /\ world' = world
                /\ mig' = mig + 1]_vars

\* the run has aborted on an animal of the grid of one cell, after an animal
\* before it was not selected
C16_Witness ==
    /\ pc = "aborted"
    /\ error[1] = "no_neighbors"
    /\ Cardinality(Cells) = 1
    /\ mig > 1
    /\ migrates

\* a turn of the grid of one cell in which no animal was selected is over
C16_WitnessNotSelected ==
    /\ pc = "turn_start"
    /\ time_elapsed = 1
    /\ error = NoError
    /\ Cardinality(Cells) = 1
    /\ Len(free_animals) = MigAnimals

\* the cells an animal standing in cell c can migrate to, for the given
\* contents of the cells
Destinations(c, animals) ==
    IF MinOfNone(Links(c)) THEN {}
    ELSE SeqToSet(GetEmptiestNeighbors(c, animals))

\* C17 as stated: the migrations of a phase are independent; the cells the
\* next animal can migrate to do not depend on whether the animal before it
\* has moved.
C17_OrderInsensitive ==
    [][(pc = "migrate" /\ pc' = "migrate" /\ mig < Len(free_animals))
        => Destinations(free_animals'[mig + 1][2], cell_animals')
            = Destinations(free_animals[mig + 1][2], cell_animals)]_vars

\* C17: in a migration phase the free animals are taken one by one, in the
\* order of the index; the migration of an animal changes the cell of no
\* other animal, in the cells' sets and in the index, and the keys of the
\* index and their order stay as they are.
C17_MovesOnlyItself ==
    [][(pc = "migrate" /\ pc' = "migrate")
        => /\ mig <= Len(free_animals)
           /\ mig' = mig + 1
           /\ Len(free_animals') = Len(free_animals)
           /\ \A i \in 1..Len(free_animals) :
                /\ free_animals'[i][1] = free_animals[i][1]
                /\ i # mig => free_animals'[i][2] = free_animals[i][2]
           /\ \A c \in Cells :
                cell_animals'[c] \ {MigAnimal} = cell_animals[c] \ {MigAnimal}
           /\ ~migrates' => world' = world]_vars

\* on the grid of three cells in a row the first animal has left the middle
\* cell, in which a second animal waits for its turn, for an end cell
C17_Witness ==
    /\ pc = "migrate"
    /\ migrates
    /\ mig = 2
    /\ Cardinality(Cells) = 3
    /\ free_animals[1][2] # <<1, 0>>
    /\ free_animals[2][2] = <<1, 0>>
    /\ free_animals[2][1] \in cell_animals[<<1, 0>>]
    /\ Cardinality(cell_animals[<<0, 0>>]) # Cardinality(cell_animals[<<2, 0>>])

\* C19: the snapshot given to check_surroundings holds a view of the ark
\* exactly when the helper stands in the ark's cell, and that view is the
\* content of the ark taken when the turn began: the view is taken as the
\* turn begins, it is not taken again during the turn, whatever is delivered
\* to the ark meanwhile, and it is the one put in the snapshot.
C19_ArkViewFromTurnStart ==
    [][/\ (pc = "turn_start" /\ pc' # "done")
            => ark_view' = [present |-> TRUE, animals |-> ark]
       /\ pc \in {"check", "route"} => ark_view' = ark_view
       /\ (pc = "check" /\ pc' = "route")
            => /\ snapshot'.ark_view.present
                    <=> StandsIn(cur) = ArkCell
               /\ snapshot'.ark_view.present
                    => snapshot'.ark_view.animals = ark_view.animals]_vars

\* the second helper is shown, in the ark's cell, the ark as it was when the
\* turn began, before a delivery made since
C19_Witness ==
    /\ pc = "route"
    /\ cur = 2
    /\ snapshot.ark_view.present
    /\ snapshot.ark_view.animals # ark
    /\ snapshot.time_elapsed = time_elapsed

\* a helper outside the ark's cell is shown no view of the ark
C19_WitnessOutside ==
    /\ pc = "route"
    /\ ~snapshot.ark_view.present
    /\ StandsIn(cur) # ArkCell
    /\ ark # {}

\* C20: the set of animals delivered to the ark never shrinks.
C20_ArkNeverShrinks ==
    [][ark \subseteq ark']_vars

\* both helpers have delivered their animals to an ark that held one
C20_Witness ==
    /\ NumAnimals \in ark
    /\ flock[1] \subseteq ark
    /\ flock[2] \subseteq ark
    /\ flock[1] # {}
    /\ flock[2] # {}

\* C29: no flock ever holds more than MAX_FLOCK_SIZE animals, the flocks
\* holding at most so many at the start.
C29_FlockWithinCapacity ==
    \A h \in DOMAIN flock : Cardinality(flock[h]) <= MAX_FLOCK_SIZE

\* the first helper has filled its flock in the first turn, and its Obtain
\* of the second turn has been refused
C29_Witness ==
    /\ pc = "aborted"
    /\ error = <<"full_flock", 1>>
    /\ time_elapsed = 1
    /\ Cardinality(flock[1]) = MAX_FLOCK_SIZE
    /\ \E a \in flock[1] : a >= MAX_FLOCK_SIZE
    /\ action.kind = "Obtain"
    /\ action.animal \in cell_animals[StandsIn(1)]

\* C30: of two helpers standing in one cell that ask in the same turn for
\* the same free animal, the one that comes first in the list of helpers
\* gets it; the request of the one that comes later, which finds the animal
\* in the first one's flock, aborts the run and changes nothing; no animal
\* is ever in two flocks.
C30_FirstInListObtains ==
    [][/\ (pc = "resolve" /\ cur = 1 /\ action.kind = "Obtain"
            /\ action.animal \in cell_animals[StandsIn(1)]
            /\ Cardinality(flock[1]) < MAX_FLOCK_SIZE)
            => /\ flock'[1] = flock[1] \cup {action.animal}
               /\ \A c \in Cells : action.animal \notin cell_animals'[c]
               /\ error' = NoError
               /\ pc' = "get_action" /\ cur' = 2
       /\ (pc = "resolve" /\ cur > 1 /\ action.kind = "Obtain"
            /\ \E h \in 1..(cur - 1) : action.animal \in flock[h])
            => /\ Aborts
               /\ error'[1] \in {"not_in_cell", "full_flock"}
               /\ world' = world
       /\ \A g, h \in DOMAIN flock : g # h => flock'[g] \cap flock'[h] = {}]_vars

\* in the first turn the second helper, in the cell of the first, has asked
\* for the animal the first has just taken, and the run has aborted
C30_Witness ==
    /\ pc = "aborted"
    /\ time_elapsed = 0
    /\ cur = 2
    /\ StandsIn(1) = StandsIn(2)
    /\ action.kind = "Obtain"
    /\ action.animal >= MAX_FLOCK_SIZE
    /\ action.animal \in flock[1]
    /\ error = <<"not_in_cell", 2, action.animal, StandsIn(2)>>
    /\ flock[2] = {}

\* the neighbors of cell c that hold the fewest animals of all its neighbors
Emptiest(c) ==
    {n \in Adjacent(c) :
        \A m \in Adjacent(c) :
            Cardinality(cell_animals[n]) <= Cardinality(cell_animals[m])}

\* C24: for a cell with a linked neighbor, get_emptiest_neighbors returns
\* the linked neighbors that hold the minimum number of animals over all
\* linked neighbors: the list is not empty, holds only cells of the grid
\* next to the cell, each once, every neighbor tied for the minimum and none
\* that holds more.
C24_EmptiestNeighborsExact ==
    \A c \in Cells :
        Adjacent(c) # {} =>
            LET r == GetEmptiestNeighbors(c, cell_animals)
            IN  /\ r # <<>>
                /\ SeqToSet(r) \subseteq Adjacent(c)
                /\ SeqToSet(r) = Emptiest(c)
                /\ Len(r) = Cardinality(SeqToSet(r))

\* during a migration on the grid of two by two cells, one cell has two
\* neighbors tied for the minimum and another has one neighbor emptier than
\* the other
C24_Witness ==
    /\ pc = "migrate"
    /\ migrates
    /\ Cardinality(Cells) = 4
    /\ \E c \in Cells :
        /\ Cardinality(Adjacent(c)) = 2
        /\ Len(GetEmptiestNeighbors(c, cell_animals)) = 2
    /\ \E c \in Cells :
        /\ Cardinality(Adjacent(c)) = 2
        /\ Len(GetEmptiestNeighbors(c, cell_animals)) = 1

\* C22: the position of a helper changes only by its own accepted Move, to
\* the destination asked for, and its flock only by its own accepted Obtain
\* or Release, by the animal asked for; the signal pass, the action of
\* another helper, a None and the migration leave them as they are.
C22_OwnActionsOnly ==
    [][/\ \A h \in DOMAIN position :
            /\ position'[h] # position[h]
                => /\ pc = "resolve" /\ cur = h /\ action.kind = "Move"
                   /\ position'[h] = <<action.x, action.y>>
                   /\ error' = NoError
            /\ flock'[h] # flock[h]
                => /\ pc = "resolve" /\ cur = h /\ error' = NoError
                   /\ \/ /\ action.kind = "Obtain"
                         /\ flock'[h] = flock[h] \cup {action.animal}
                      \/ /\ action.kind = "Release"
                         /\ flock'[h] = flock[h] \ {action.animal}
       /\ (pc # "resolve" \/ action.kind = "None")
            => (position' = position /\ flock' = flock)]_vars

\* in the first turn the first helper has taken an animal and the second
\* has moved; the first stands where it stood and the second holds what it
\* held, and an animal has migrated since
C22_Witness ==
    /\ pc = "migrate"
    /\ time_elapsed = 0
    /\ migrates
    /\ Cardinality(flock[1]) = 1
    /\ position[1] \in InitPositions
    /\ position[2] \notin InitPositions
    /\ flock[2] = {}

\* C23: when a turn starts, the helpers set of every cell, which the cell's
\* view exposes, is the set of the helpers whose truncated position is the
\* cell.
C23_HelpersPresentMatch ==
    pc = "turn_start" =>
        \A c \in Cells :
            cell_helpers[c] = {h \in DOMAIN position : StandsIn(h) = c}

\* C26: the raining flag given to a helper in turn t is true exactly when
\* t >= time - START_RAIN; hence, when it is true, it is true in every later
\* turn of the run as well.
C26_RainFromThreshold ==
    pc = "route" =>
        /\ snapshot.time_elapsed = time_elapsed
        /\ snapshot.is_raining <=> time_elapsed + START_RAIN >= Time
        /\ snapshot.is_raining =>
                \A t \in time_elapsed..(Time - 1) : t + START_RAIN >= Time

\* the first helper is told of the rain in the turn in which it starts, after
\* a turn without rain
C26_Witness ==
    /\ pc = "route"
    /\ cur = 1
    /\ snapshot.is_raining
    /\ time_elapsed = Time - START_RAIN
    /\ time_elapsed > 0

\* a helper is told in the first turn that it does not rain
C26_WitnessDry ==
    /\ pc = "route"
    /\ ~snapshot.is_raining
    /\ time_elapsed = 0

\* the cells of the grid within MAX_SIGHT_KM of helper h
SeenBy(h) ==
    {c \in Cells :
        (position[h][1] - c[1] * Scale) * (position[h][1] - c[1] * Scale)
            + (position[h][2] - c[2] * Scale) * (position[h][2] - c[2] * Scale)
        <= (MAX_SIGHT_KM * Scale) * (MAX_SIGHT_KM * Scale)}

\* C21: the Sight of every helper is built from the world as it is when the
\* turn starts: when a Sight is built no action of the turn has been asked
\* for or applied and no animal has migrated in the turn, the Sight holds
\* for each cell in sight the animals and the helpers set of the cell at
\* that moment, and the world does not change from the start of the turn to
\* the end of the signal pass; so what a helper perceives does not depend on
\* the order in which the helpers are processed.
C21_SightFromTurnStart ==
    /\ [](pc = "route" =>
            /\ \A h \in DOMAIN position : calls.action[h] = 0
            /\ mig = 1 /\ ~migrates
            /\ DOMAIN snapshot.sight = SeenBy(cur)
            /\ \A c \in SeenBy(cur) :
                /\ snapshot.sight[c].animals = cell_animals[c]
                /\ snapshot.sight[c].helpers = cell_helpers[c])
    /\ [][(pc \in {"turn_start", "check", "route"}) => (world' = world)]_vars

\* in the second turn the second helper is shown, after the first, the two
\* cells as the first turn has left them: an animal has migrated to the
\* second cell, and the first helper has taken one from the first cell
C21_Witness ==
    /\ pc = "route"
    /\ cur = 2
    /\ time_elapsed = 1
    /\ DOMAIN snapshot.sight = Cells
    /\ snapshot.sight[<<1, 0>>].animals # {}
    /\ snapshot.sight[<<0, 0>>].animals # cell_animals[<<1, 0>>]
    /\ snapshot.sight[<<0, 0>>].helpers # {}
    /\ Cardinality(flock[1]) = MAX_FLOCK_SIZE

\* C25: a value handed back by get_action that is none of Release, Obtain,
\* Move and None is rejected: the run aborts with an error.
C25_UnknownActionRejected ==
    [][(pc = "resolve"
            /\ action.kind \notin {"Release", "Obtain", "Move", "None"})
        => Aborts]_vars

\* C27: with RandomPlayer, Player6 or Player9 behind the helpers, every call
\* of check_surroundings hands back an integer of [0, 255], whatever the
\* helper's id and kind, the turn, the number of species and the messages
\* received before: no call raises, and the range check of the signal pass
\* never fails.
C27_SignalsAreBytes ==
    /\ pc = "route" => one_byte_message \in 0..(ONE_BYTE - 1)
    /\ \A h \in DOMAIN position : calls.signal[h] \in 0..(ONE_BYTE - 1)
    /\ error[1] # "bad_message"
    /\ error[1] # "attribute_error"

\* the values that are handed back are bytes: with a snapshot that has a
\* flock, and for RandomPlayer and the Noah of Player9 in any case
C27_ReturnedAreBytes ==
    /\ pc = "route" => one_byte_message \in 0..(ONE_BYTE - 1)
    /\ \A h \in DOMAIN position : calls.signal[h] \in 0..(ONE_BYTE - 1)
    /\ error[1] # "bad_message"

\* a RandomPlayer whose id plus the turn is beyond a byte has handed back
\* the low eight bits of it
C27_Witness ==
    /\ pc = "route"
    /\ strategy.class = "RandomPlayer"
    /\ strategy.id[cur] + time_elapsed >= ONE_BYTE
    /\ one_byte_message = strategy.id[cur] + time_elapsed - ONE_BYTE

\* a Player9 helper hands back the hellos it received, or-ed together
C27_WitnessHellos ==
    /\ pc = "route"
    /\ strategy.class = "Player9"
    /\ strategy.kind[cur] = "Helper"
    /\ time_elapsed = 1
    /\ one_byte_message # Hello(strategy.id[cur])
    /\ one_byte_message > 0

\* Noah of Player9 with many species, and Noah of Player6 broadcasting
C27_WitnessNoah ==
    /\ pc = "route"
    /\ strategy.kind[cur] = "Noah"
    /\ \/ strategy.class = "Player9" /\ strategy.num_species = MaxSpecies
                /\ one_byte_message = 1
       \/ strategy.class = "Player6"
                /\ one_byte_message >= SIGNAL_ARK_STATUS * (2 ^ 6)

\* C28: a Noah of Player6 or Player9 is handed no action in any turn: in every
\* state of the run its position and its flock are those of the start, and
\* the action resolved for it is None.
C28_NoahStaysPut ==
    strategy.class \in {"Player6", "Player9"} =>
        \A h \in DOMAIN position :
            strategy.kind[h] = "Noah" =>
                /\ position[h] = strategy.start.position[h]
                /\ flock[h] = strategy.start.flock[h]
                /\ (pc = "resolve" /\ cur = h) => action = None

\* the run went through all its turns, and another helper moved away from
\* Noah's cell with an animal
C28_Witness ==
    /\ pc = "done"
    /\ time_elapsed = Time
    /\ error = NoError
    /\ strategy.class \in {"Player6", "Player9"}
    /\ \E h, k \in DOMAIN position :
        /\ strategy.kind[h] = "Noah"
        /\ strategy.start.position[h] = strategy.start.position[k]
        /\ position[k] # position[h]
        /\ flock[k] # {}

\* C31: in a turn after the first, an animal that is free and indexed in a
\* cell (as after a Release in the turn before, with no migration in
\* between) is obtained by a helper with spare capacity standing in that
\* cell: Obtain(a) is accepted, a is in the helper's flock afterwards and no
\* longer a key of the free-animal index.
C31_ReleaseThenObtain ==
    [][(/\ pc = "resolve"
        /\ time_elapsed > 0
        /\ action.kind = "Obtain"
        /\ action.animal \in DictKeys(free_animals)
        /\ DictGet(free_animals, action.animal) = StandsIn(cur)
        /\ Cardinality(flock[cur]) < MAX_FLOCK_SIZE)
       => (/\ action.animal \in flock'[cur]
           /\ action.animal \notin DictKeys(free_animals')
           /\ pc' # "aborted")]_vars

\* C32: on a grid where every cell has a linked neighbor the migration phase
\* raises no error, whatever was accepted before: no run ends with an
\* exception of the migration loop.
C32_MigrationNeverRaises ==
    (\A c \in Cells : Adjacent(c) # {})
        => error[1] \notin {"no_neighbors", "key_error"}

\* C33: in a migration phase the free animals are taken one by one, each
\* once: a step of the phase handles the animal at the loop's place in the
\* index and goes on to the next place; that animal stays in its cell (not
\* selected) or ends in a cell one lattice step up, down, left or right of
\* the cell it was in, never in that cell itself and never further; the
\* phase ends only when the loop is past the last animal, and the end itself
\* moves no animal.
C33_OneStepOncePerPhase ==
    [][/\ (pc = "migrate" /\ pc' = "migrate") =>
            /\ mig <= Len(free_animals)
            /\ mig' = mig + 1
            /\ free_animals'[mig][1] = MigAnimal
            /\ IF migrates'
               THEN /\ free_animals'[mig][2] \in Adjacent(MigCell)
                    /\ free_animals'[mig][2] # MigCell
                    /\ MigAnimal \in cell_animals'[free_animals'[mig][2]]
                    /\ MigAnimal \notin cell_animals'[MigCell]
               ELSE /\ free_animals' = free_animals
                    /\ cell_animals' = cell_animals
       /\ (pc = "migrate" /\ pc' = "turn_start") =>
            /\ mig = Len(free_animals) + 1
            /\ free_animals' = free_animals
            /\ cell_animals' = cell_animals]_vars

\* on the row of three cells the phase is over, its last animal went from the
\* middle to an end cell, and the first animal is at the other end
C33_Witness ==
    /\ pc = "migrate"
    /\ mig = Len(free_animals) + 1
    /\ migrates
    /\ Cardinality(Cells) = 3
    /\ free_animals[Len(free_animals)][2] = <<2, 0>>
    /\ free_animals[1][2] = <<0, 0>>

\* C34: in every reachable state no animal is at once a key of the
\* free-animal index and a member of a helper's flock; hence the animal
\* whose turn it is in the migration loop is in no flock.
C34_FreeOrHeld ==
    /\ \A h \in DOMAIN flock : flock[h] \cap DictKeys(free_animals) = {}
    /\ (pc = "migrate" /\ mig <= Len(free_animals)) =>
            \A h \in DOMAIN flock : MigAnimal \notin flock[h]

\* the migration loop stands at an animal that a helper released, while the
\* second helper holds an animal it obtained
C34_Witness ==
    /\ pc = "migrate"
    /\ mig <= Len(free_animals)
    /\ MigAnimal \in {a \in Animals : a < MAX_FLOCK_SIZE}
    /\ flock[2] # {}
    /\ flock[2] \cap flock[1] = {}

\* a step in which ArkUI calls engine.run_turn
RunTurnCalled == ui.at # "in_turn" /\ ui'.at = "in_turn"

\* what the Engine holds, and the index run_turn was last called with
EngineState == <<world, time_elapsed, pc, mig, error>>

\* C36: whatever the events, ArkUI calls run_turn only with its turn
\* counter as index and only while that counter is below engine.time; the
\* counter starts at 0, never exceeds engine.time, and goes up by one exactly
\* when a call returns, so the indices are 0, 1, 2, ... each used at most
\* once; the Engine is touched only by such a call; and a step attempted
\* when the counter equals engine.time only sets paused to true.
C36_WindowStepsInOrder ==
    /\ ui.turn = 0
    /\ [](ui.turn \in 0..Time)
    /\ [][/\ RunTurnCalled =>
                /\ ui.turn < Time
                /\ time_elapsed' = ui.turn
                /\ ui'.turn = ui.turn
          /\ (ui'.turn # ui.turn) =>
                /\ ui.at = "in_turn"
                /\ ui'.at # "in_turn"
                /\ ui'.turn = ui.turn + 1
                /\ time_elapsed = ui.turn
          /\ (EngineState' # EngineState) =>
                (RunTurnCalled \/ ui.at = "in_turn")
          /\ (ui.turn = Time) =>
                /\ EngineState' = EngineState
                /\ ui'.turn = ui.turn
                /\ ui'.at # "in_turn"
                /\ (~ui.paused /\ ui'.at = "draw") => ui'.paused]_vars

\* every turn has been run, the window was left unpaused and has paused
\* itself on the step after the last turn
C36_Witness ==
    /\ ui.turn = Time
    /\ ui.paused
    /\ ui.running
    /\ ui.at = "draw"
    /\ ui.back = "draw"
    /\ time_elapsed = Time - 1
    /\ \E a \in UIAnimals : a \notin cell_animals[<<0, 0>>]

\* what _get_random_move may still do: the random tries left, the two
\* fallbacks and the return
RandomMoveLeft ==
    CASE strategy.at = "random" -> (RANDOM_ATTEMPTS - strategy.attempts) + 2
      [] strategy.at = "center" -> 2
      [] strategy.at = "ark" -> 1
      [] OTHER -> 0

\* C37: _get_random_move makes at most 10 random tries, then at most the two
\* fallbacks, and returns: every step of it brings the return nearer; the
\* place returned is accepted by can_move_to or is the helper's own place.
C37_RandomMoveEnds ==
    /\ [](strategy.attempts \in 0..RANDOM_ATTEMPTS)
    /\ [](strategy.at = "returned" =>
            \/ CanMoveTo(position[cur], strategy.result[1],
                         strategy.result[2])
            \/ strategy.result = position[cur])
    /\ [][/\ RandomMoveLeft' < RandomMoveLeft
          /\ RandomMoveLeft' >= 0]_vars

\* ten random tries and both fallbacks were refused: the helper stays put
C37_Witness ==
    /\ strategy.at = "returned"
    /\ strategy.attempts = RANDOM_ATTEMPTS
    /\ strategy.result = position[cur]

\* a random try was accepted and leads away from the helper's place
C37_WitnessMoved ==
    /\ strategy.at = "returned"
    /\ strategy.attempts > 0
    /\ strategy.attempts < RANDOM_ATTEMPTS
    /\ strategy.result # position[cur]

\* Player9.shared_claims
Claims == strategy.shared_claims
Ttl(k) == Claims[k][2]

\* a check_surroundings call that ticks the claims is being made
TickStep ==
    pc = "check" /\ strategy.kind[cur] # "Noah" /\ strategy.snapshot_flock

\* C38 as stated: every ttl is in [1, CLAIM_TTL], and a claim that is not
\* made again is gone after at most CLAIM_TTL - 1 ticks: a claim that has
\* been through CLAIM_TTL - 2 ticks (its ttl is 2) does not outlive the next
\* tick.
C38_GoneAfterTtlMinusOneTicks ==
    /\ [](\A k \in DOMAIN Claims : Ttl(k) \in 1..CLAIM_TTL)
    /\ [][TickStep =>
            \A k \in DOMAIN Claims :
                (CLAIM_TTL - Ttl(k)) + 1 >= CLAIM_TTL - 1
                    => k \notin DOMAIN Claims']_vars

\* C38, amended: every ttl is in [1, CLAIM_TTL]; a tick takes one off every
\* ttl and deletes exactly the claims whose ttl was 1, so a claim that is not
\* made again is still there after CLAIM_TTL - 1 ticks and is deleted by the
\* tick number CLAIM_TTL; no other call changes a claim but by making it
\* anew with a ttl of CLAIM_TTL, and Noah's calls change nothing.
C38_GoneAfterTtlTicks ==
    /\ [](\A k \in DOMAIN Claims : Ttl(k) \in 1..CLAIM_TTL)
    /\ [][/\ TickStep =>
                /\ DOMAIN Claims' = {k \in DOMAIN Claims : Ttl(k) > 1}
                /\ \A k \in DOMAIN Claims' :
                        Claims'[k] = <<Claims[k][1], Ttl(k) - 1>>
          /\ ~TickStep =>
                \A k \in DOMAIN Claims' :
                    \/ k \in DOMAIN Claims /\ Claims'[k] = Claims[k]
                    \/ Claims'[k][2] = CLAIM_TTL
          /\ strategy.kind[cur] = "Noah" => Claims' = Claims]_vars

\* a claim is down to its last tick while another one has just been made
C38_Witness ==
    /\ pc = "check"
    /\ \E k, j \in DOMAIN Claims : Ttl(k) = 1 /\ Ttl(j) = CLAIM_TTL - 1

\* C35: a Player6 helper chooses the same action in two runs that start
\* alike and differ only in what another helper does, when that helper is
\* never within its sight and changes no cell within its sight: in every
\* turn get_action of the second helper returns the same in the two runs.
C35_ActionIndependentOfUnseen ==
    strategy.chosen = strategy.twin.chosen

====
